---- MODULE Spec2Model ----
(***************************************************************************)
(* State-machine model of the holochain-rust core excerpt:                 *)
(*   - network reducers for get-entry (core/src/network/reducers)          *)
(*   - the action channel and the serial reducer loop                      *)
(*   - the validation package builder (core/src/nucleus/actions)           *)
(*   - the hold-link workflow (core/src/workflows/hold_link.rs)            *)
(*   - the entity-attribute-value store (core_types/src/eav.rs)            *)
(***************************************************************************)
EXTENDS Integers, Sequences, FiniteSets, Bags, TLC

\* ------------------------------------------------------------------ bounds
\* Length of the transport outbox after which no further request is handed over.
MaxSent == 3

\* Addresses of entries requested over the network.
Addresses == {"a1", "a2"}

\* Payloads a DhtData result may carry: an entry with meta, or no entry.
Contents == {"entry1", "NoEntry"}

\* Number of ActionWrappers created by the dispatching threads.
MaxDispatch == 3

\* Threads that call dispatch: a workflow and a network response handler.
Threads == {"workflow", "net_handler"}

\* Number of headers on the local chain, the genesis header included.
MaxChain == 2

\* Number of build_validation_package calls.
MaxBuilds == 1

\* Number of build_validation_package calls that are in flight together.
MaxConcurrent == 2

\* Number of headers on the local chain where one entry is committed several
\* times, the genesis header included.
MaxHistory == 3

\* Number of hold_link_workflow runs.
MaxRuns == 2

\* Number of triples the EAV store is filled with.
MaxStore == 2

\* NetworkSettings carried by InitNetwork.
TestDna == "dna1"
TestAgent == "agent1"

VARIABLES
    network_state,   \* NetworkState: network, dna_address, agent_id,
                     \* get_entry_with_meta_results, plus the transport outbox
    last,            \* the action applied last, its input and the key's value before
    channel,         \* the action channel: wrappers sent and not yet reduced
    received,        \* every wrapper the channel received, in receipt order
    applied,         \* every wrapper the reducer loop applied, with the transport's answer
    outgoing,        \* per thread: the wrapper it created and has not sent yet
    nextId,          \* the next process-unique id (snowflake)
    chain,           \* AgentState: the local chain's headers, oldest first
    cas,             \* the chain's content storage: the entries stored
    builds,          \* one record per build_validation_package call
    validation_packages, \* NucleusState.validation_packages: id -> Result
    runs,            \* one record per hold_link_workflow run
    dht_links,       \* the links held in the local DHT shard
    storage,         \* ExampleEntityAttributeValueStorageNonSync.storage
    eav_last,        \* the last add_eav or fetch_eav call and what it returned
    constructed,     \* the last EntityAttributeValue::new call and its result
    rwlock,          \* the RwLock around the storage: its writer and its readers
    eav_threads      \* per thread: where it is in add_eav or fetch_eav

netVars == <<network_state, last>>
dispatchVars == <<channel, received, applied, outgoing, nextId>>
pkgVars == <<chain, cas, builds, validation_packages>>
holdVars == <<runs, dht_links>>
eavVars == <<storage, eav_last, constructed>>
lockVars == <<rwlock, eav_threads>>
restVars == <<holdVars, eavVars, lockVars>>
vars == <<network_state, last, channel, received, applied, outgoing, nextId,
          chain, cas, builds, validation_packages, runs, dht_links,
          storage, eav_last, constructed, rwlock, eav_threads>>

\* ------------------------------------------------------- values of the map
\* Option<Result<Option<EntryWithMeta>, HolochainError>> as stored under a key.
Pending == [tag |-> "None", val |-> "-"]
ResOk(c) == [tag |-> "Ok", val |-> c]
ResErr(e) == [tag |-> "Err", val |-> e]

ErrNotInitialized == "Network not initialized"
ErrTimeout == "Timeout"
ErrIo == "IoError"

\* HashMap::get(k).is_some()
Has(m, k) == k \in DOMAIN m

\* HashMap::insert(k, v)
Insert(m, k, v) == [x \in (DOMAIN m) \cup {k} |-> IF x = k THEN v ELSE m[x]]

EmptyMap == [x \in {} |-> Pending]

\* ----------------------------------------------------------- NetworkState
\* NetworkState::initialized(): Ok(()) or ErrorGeneric("Network not initialized").
initialized(ns) ==
    ns.network = "Some" /\ ns.dna_address # "None" /\ ns.agent_id # "None"

\* Mutant: dna_address and from_agent_id are filled from each other's field.
GetDht_swapped(ns, address) ==
    [msg_id |-> "?",
     dna_address |-> ns.agent_id,
     from_agent_id |-> ns.dna_address,
     address |-> address]

\* The GetDhtData request built by inner().
GetDht(ns, address) ==
    [msg_id |-> "?",
     dna_address |-> ns.dna_address,
     from_agent_id |-> ns.agent_id,
     address |-> address]

\* send(network_state, protocol_wrapper): the transport either takes the message
\* (io = "Ok") or reports a failure, which send returns as an error value.
send(ns, msg, io) ==
    IF io = "Ok"
    THEN [result |-> "Ok", ns |-> [ns EXCEPT !.sent = Append(@, msg)]]
    ELSE [result |-> io, ns |-> ns]

\* Mutant: the `initialized()?` check is missing.
inner_unchecked(ns, address, io) ==
    IF ns.dna_address = "None" \/ ns.agent_id = "None"
    THEN [result |-> "Panic", ns |-> ns]
    ELSE send(ns, GetDht(ns, address), io)

\* inner(network_state, address): `initialized()?`, then the two unwrap()s of
\* dna_address and agent_id (a panic on None), then send(GetDht{..}).
inner(ns, address, io) ==
    IF ~initialized(ns)
    THEN [result |-> ErrNotInitialized, ns |-> ns]
    ELSE IF ns.dna_address = "None" \/ ns.agent_id = "None"
         THEN [result |-> "Panic", ns |-> ns]
         ELSE send(ns, GetDht(ns, address), io)

\* Mutant: the error of inner() is dropped and the key is left pending.
reduce_get_entry_swallow(ns, address, io) ==
    LET r == inner(ns, address, io) IN
    IF r.result = "Panic"
    THEN ns
    ELSE [r.ns EXCEPT !.get_entry_with_meta_results = Insert(@, address, Pending)]

\* Mutant: the result is inserted into a fresh map, the other keys are lost.
reduce_get_entry_fresh_map(ns, address, io) ==
    LET r == inner(ns, address, io)
        result == IF r.result = "Ok" THEN Pending ELSE ResErr(r.result)
    IN IF r.result = "Panic"
       THEN ns
       ELSE [r.ns EXCEPT !.get_entry_with_meta_results =
                Insert(EmptyMap, address, result)]

\* reduce_get_entry: Ok(()) => None, Err(err) => Some(Err(err)); always inserted.
\* A panic inside inner() unwinds before the insert.
reduce_get_entry(ns, address, io) ==
    LET r == inner(ns, address, io)
        result == IF r.result = "Ok" THEN Pending ELSE ResErr(r.result)
    IN IF r.result = "Panic"
       THEN ns
       ELSE [r.ns EXCEPT !.get_entry_with_meta_results = Insert(@, address, result)]

\* Mutant: the timeout is written whenever the key is present.
reduce_get_entry_timeout_clobber(ns, address) ==
    IF ~Has(ns.get_entry_with_meta_results, address)
    THEN ns
    ELSE [ns EXCEPT !.get_entry_with_meta_results =
             Insert(@, address, ResErr(ErrTimeout))]

\* Mutant: the timeout is never written.
reduce_get_entry_timeout_never(ns, address) == ns

\* Mutant: the second test is inverted (is_some for is_none).
reduce_get_entry_timeout_inverted(ns, address) ==
    IF ~Has(ns.get_entry_with_meta_results, address)
    THEN ns
    ELSE IF ns.get_entry_with_meta_results[address].tag # "None"
         THEN [ns EXCEPT !.get_entry_with_meta_results =
                  Insert(@, address, ResErr(ErrTimeout))]
         ELSE ns

\* Mutant: the early return for an absent key is missing (get(address) of an
\* absent key is taken for a pending request).
reduce_get_entry_timeout_absent_writes(ns, address) ==
    IF ~Has(ns.get_entry_with_meta_results, address)
    THEN [ns EXCEPT !.get_entry_with_meta_results =
             Insert(@, address, ResErr(ErrTimeout))]
    ELSE IF ns.get_entry_with_meta_results[address].tag = "None"
         THEN [ns EXCEPT !.get_entry_with_meta_results =
                  Insert(@, address, ResErr(ErrTimeout))]
         ELSE ns

\* reduce_get_entry_timeout: absent key => return; pending => Some(Err(Timeout)).
reduce_get_entry_timeout(ns, address) ==
    IF ~Has(ns.get_entry_with_meta_results, address)
    THEN ns
    ELSE IF ns.get_entry_with_meta_results[address].tag = "None"
         THEN [ns EXCEPT !.get_entry_with_meta_results =
                  Insert(@, address, ResErr(ErrTimeout))]
         ELSE ns

\* InitNetwork(NetworkSettings{config, dna_address, agent_id}).
reduce_init(ns, dna, agent) ==
    [ns EXCEPT !.network = "Some", !.dna_address = dna, !.agent_id = agent]

\* HandleGetResult(DhtData{address, content}): the delivered content is stored
\* under the address it was requested by.
reduce_handle_get_result(ns, address, content) ==
    [ns EXCEPT !.get_entry_with_meta_results = Insert(@, address, ResOk(content))]

\* ------------------------------------------------------------- Init (net)
InitNetworkState ==
    [network |-> "None",
     dna_address |-> "None",
     agent_id |-> "None",
     get_entry_with_meta_results |-> EmptyMap,
     sent |-> <<>>]

\* What the key held before the action: the stored value, or Absent.
Absent == [tag |-> "Absent", val |-> "-"]
Lookup(ns, a) ==
    IF Has(ns.get_entry_with_meta_results, a)
    THEN ns.get_entry_with_meta_results[a]
    ELSE Absent

NoAction == [type |-> "None", address |-> "-", arg |-> "-", before |-> Absent]

NoWrapper == [id |-> 0, action |-> [type |-> "None", address |-> "-", arg |-> "-"]]

InitDispatchVars ==
    /\ channel = <<>>
    /\ received = <<>>
    /\ applied = <<>>
    /\ outgoing = [t \in Threads |-> NoWrapper]
    /\ nextId = 1

\* ------------------------------------------- entries, headers, the chain
\* Entry::new(&entry_type, &value)
Entry(t, v) == [entry_type |-> t, value |-> v]

DnaEntry == Entry("%dna", "dna")
EntryA1 == Entry("app_public", "v1")
EntryA2 == Entry("app_public", "v2")
EntryB == Entry("app_private", "v3")
EntryU == Entry("app_unknown", "v4")

\* Entries the agent commits after genesis, and entries packages are built for.
CommitEntries == {EntryA1, EntryA2, EntryB}
BuildEntries == {EntryA1, EntryB, EntryU}

\* AddressableContent::address(): the hash of the entry's content.
Address(entry) == <<"hash", entry.value>>

\* Dna::get_zome_name_for_entry_type: the zome that declares the entry type.
get_zome_name_for_entry_type(t) ==
    IF t \in {"app_public", "app_private"} THEN "test_zome" ELSE "None"

\* EntryType::can_publish
can_publish(t) == t \notin {"%dna", "app_private"}

\* A ChainHeader: the entry it belongs to and the header it links to (its
\* position on the chain; 0 for none).
ChainHeader(entry, link) ==
    [entry_type |-> entry.entry_type, entry_address |-> Address(entry), link |-> link]

NoHeader == [entry_type |-> "-", entry_address |-> <<"hash", "-">>, link |-> 0]

\* agent::state::create_new_chain_header(&entry, agent_state): a header for the
\* entry that links to the current top header.
create_new_chain_header(entry, ch) == ChainHeader(entry, Len(ch))

\* chain.iter(&top_header): the headers from the top header backward.
ChainIter(ch) == [i \in 1..Len(ch) |-> ch[Len(ch) + 1 - i]]

\* Iterator::filter(|header| header.entry_type().can_publish())
RECURSIVE FilterPublishable(_)
FilterPublishable(seq) ==
    IF seq = <<>>
    THEN <<>>
    ELSE IF can_publish(Head(seq).entry_type)
         THEN <<Head(seq)>> \o FilterPublishable(Tail(seq))
         ELSE FilterPublishable(Tail(seq))

\* Iterator::find(|header| *header.entry_address() == address): the headers that
\* match, in iteration order (find returns the first).
RECURSIVE FilterAddress(_, _)
FilterAddress(seq, address) ==
    IF seq = <<>>
    THEN <<>>
    ELSE IF Head(seq).entry_address = address
         THEN <<Head(seq)>> \o FilterAddress(Tail(seq), address)
         ELSE FilterAddress(Tail(seq), address)

\* Option<T>
None(v) == [some |-> FALSE, v |-> v]
Some(v) == [some |-> TRUE, v |-> v]

\* Mutant: the chain is walked from the genesis header forward.
chain_header_oldest(entry, ch) ==
    LET found == FilterAddress(ch, Address(entry))
    IN IF found = <<>> THEN None(NoHeader) ELSE Some(Head(found))

\* chain_header(entry, context): the first header, from the top backward, whose
\* entry address is the entry's.
chain_header(entry, ch) ==
    LET found == FilterAddress(ChainIter(ch), Address(entry))
    IN IF found = <<>> THEN None(NoHeader) ELSE Some(Head(found))

\* Option::unwrap_or(default); the default is evaluated by the caller before
\* the call, whether it is used or not.
unwrap_or(option, default) == IF option.some THEN option.v ELSE default

\* content_storage().fetch(address)
CasFetch(store, address) ==
    IF \E e \in store : Address(e) = address
    THEN Some(CHOOSE e \in store : Address(e) = address)
    ELSE None(DnaEntry)

\* all_public_chain_headers: the headers, from the top backward, whose entry
\* type can be published.
all_public_chain_headers(ch) == FilterPublishable(ChainIter(ch))

\* Mutant: the can_publish filter is missing.
all_public_chain_entries_unfiltered(ch, store) ==
    [i \in 1..Len(ch) |-> CasFetch(store, ChainIter(ch)[i].entry_address)]

\* all_public_chain_entries: the entries, fetched from the CAS, of the headers
\* whose entry type can be published (each an Option: a None makes `expect` panic).
all_public_chain_entries(ch, store) ==
    LET hs == FilterPublishable(ChainIter(ch))
    IN [i \in 1..Len(hs) |-> CasFetch(store, hs[i].entry_address)]

\* ValidationPackage::only_header(header)
only_header(header) ==
    [chain_header |-> Some(header),
     source_chain_entries |-> None(<<>>),
     source_chain_headers |-> None(<<>>),
     custom |-> None("")]

\* What get_validation_package_definition may return: a definition, Fail(reason),
\* NotImplemented, or an error of the invocation itself.
PackageDefinitions ==
    {[kind |-> "Entry", arg |-> ""],
     [kind |-> "ChainEntries", arg |-> ""],
     [kind |-> "ChainHeaders", arg |-> ""],
     [kind |-> "ChainFull", arg |-> ""],
     [kind |-> "Custom", arg |-> "custom_payload"]}
CallbackResults ==
    PackageDefinitions \cup
    {[kind |-> "Fail", arg |-> "callback_reason"],
     [kind |-> "NotImplemented", arg |-> ""],
     [kind |-> "CallError", arg |-> "call_error"]}

NoDefinition == [kind |-> "-", arg |-> ""]

\* Result<ValidationPackage, HolochainError>
PkgOk(package) == [ok |-> TRUE, package |-> package, error |-> <<"-", "">>]
PkgErr(e) == [ok |-> FALSE, package |-> only_header(NoHeader), error |-> e]
NoResult == [ok |-> FALSE, package |-> only_header(NoHeader), error |-> <<"NoResult", "">>]

ErrUnknownEntryType == <<"ValidationFailed", "Unknown entry type">>
\* Mutant: the reason given by Fail is dropped.
ErrGenericCallback_no_reason(cb) ==
    CASE cb.kind = "Fail" -> <<"ErrorGeneric", "callback failed">>
      [] cb.kind = "NotImplemented" ->
            <<"ErrorGeneric", "ValidationPackage callback not implemented">>
      [] OTHER -> <<"CallError", cb.arg>>

\* The error of the worker when the callback gives no definition: Fail(reason)
\* and NotImplemented become ErrorGeneric; an error of the invocation itself
\* passes through and_then as it is.
ErrGenericCallback(cb) ==
    CASE cb.kind = "Fail" -> <<"ErrorGeneric", cb.arg>>
      [] cb.kind = "NotImplemented" ->
            <<"ErrorGeneric", "ValidationPackage callback not implemented">>
      [] OTHER -> <<"CallError", cb.arg>>

InitPkgVars ==
    /\ chain = <<ChainHeader(DnaEntry, 0)>>
    /\ cas = {DnaEntry}
    /\ builds = <<>>
    /\ validation_packages = [x \in {} |-> NoResult]

InitHoldVars ==
    /\ runs = <<>>
    /\ dht_links = {}

\* ------------------------------------------- EntityAttributeValue values
\* The character class of the regex in validate_attribute.
ReservedCharacters == {"/", ":", "*", "?", "<", ">", "\"", "'", "\\", "|", "+"}

\* Characters attributes are written with: the class above and some others.
Alphabet == ReservedCharacters \cup {"a", "1", "_", "-"}

\* The attributes EntityAttributeValue::new is called with: every string over
\* the alphabet of at most two characters.
Attributes ==
    {<<>>} \cup {<<c>> : c \in Alphabet} \cup {<<c, d>> : c, d \in Alphabet}

\* The attributes of the triples handed to the store.
StoreAttributes == {<<"a">>, <<"a", "_">>}

\* EntityAttributeValue { entity, attribute, value }
EntityAttributeValue(entity, attribute, value) ==
    [entity |-> entity, attribute |-> attribute, value |-> value]
NoEav == EntityAttributeValue("-", <<>>, "-")

\* HcResult<EntityAttributeValue>
EavOk(eav) == [tag |-> "Ok", error |-> <<"-", "">>, eav |-> eav]
EavErr(e) == [tag |-> "Err", error |-> e, eav |-> NoEav]

\* The constraints of a fetch: None for no constraint.
NoQuery == [entity |-> None("-"), attribute |-> None(<<>>), value |-> None("-")]

NoEavCall ==
    [op |-> "none", eav |-> NoEav, query |-> NoQuery, fetched |-> {}, result |-> "-"]
NotConstructed ==
    [called |-> FALSE, entity |-> "-", attribute |-> <<>>, value |-> "-",
     result |-> EavErr(<<"-", "">>)]

\* Threads that share one ExampleEntityAttributeValueStorage (clones of the Arc).
EavThreads == {"t1", "t2", "t3"}

\* A thread that is in neither add_eav nor fetch_eav.
Idle ==
    [pc |-> "idle", eav |-> NoEav, query |-> NoQuery, begin |-> EmptyBag,
     fetched |-> {}]

\* ExampleEntityAttributeValueStorage::new(): an empty HashSet behind an
\* unlocked RwLock. The set is kept with the number of copies of each element.
InitEavVars ==
    /\ storage = EmptyBag
    /\ eav_last = NoEavCall
    /\ constructed = NotConstructed
    /\ rwlock = [writer |-> "none", readers |-> {}]
    /\ eav_threads = [t \in EavThreads |-> Idle]

InitNet ==
    /\ network_state = InitNetworkState
    /\ last = NoAction
    /\ InitDispatchVars
    /\ InitPkgVars
    /\ InitHoldVars
    /\ InitEavVars

\* ------------------------------------------- store.reduce(context, action)
ApplyInitNetwork ==
    /\ network_state' = reduce_init(network_state, TestDna, TestAgent)
    /\ last' = [type |-> "InitNetwork", address |-> "-", arg |-> "-",
                before |-> Absent]

ApplyGetEntry(a, io) ==
    /\ (initialized(network_state) /\ io = "Ok") => Len(network_state.sent) < MaxSent
    /\ network_state' = reduce_get_entry(network_state, a, io)
    /\ last' = [type |-> "GetEntry", address |-> a, arg |-> io,
                before |-> Lookup(network_state, a)]

ApplyGetEntryTimeout(a) ==
    /\ network_state' = reduce_get_entry_timeout(network_state, a)
    /\ last' = [type |-> "GetEntryTimeout", address |-> a, arg |-> "-",
                before |-> Lookup(network_state, a)]

ApplyHandleGetResult(a, c) ==
    /\ initialized(network_state)
    /\ network_state' = reduce_handle_get_result(network_state, a, c)
    /\ last' = [type |-> "HandleGetResult", address |-> a, arg |-> c,
                before |-> Lookup(network_state, a)]

NextNet ==
    \/ ApplyInitNetwork /\ UNCHANGED <<dispatchVars, pkgVars, restVars>>
    \/ \E a \in Addresses, io \in {"Ok", ErrIo} :
          ApplyGetEntry(a, io) /\ UNCHANGED <<dispatchVars, pkgVars, restVars>>
    \/ \E a \in Addresses :
          ApplyGetEntryTimeout(a) /\ UNCHANGED <<dispatchVars, pkgVars, restVars>>
    \/ \E a \in Addresses, c \in Contents :
          ApplyHandleGetResult(a, c) /\ UNCHANGED <<dispatchVars, pkgVars, restVars>>

SpecNet == InitNet /\ [][NextNet]_vars

\* ------------------------------------------------------ claims C1 .. C6
Resolved(v) == v.tag \in {"Ok", "Err"}
IsStep(type, a) == last'.type = type /\ last'.address = a

\* C1: GetEntryTimeout(A) applied while get_entry_with_meta_results[A] is already
\* resolved (a positive result or an error) leaves that value unchanged.
C1_TimeoutKeepsResolved ==
    [][\A a \in Addresses :
          (IsStep("GetEntryTimeout", a) /\ Resolved(Lookup(network_state, a)))
              => Lookup(network_state', a) = Lookup(network_state, a)]_vars

\* A timeout was applied to a positive result, which is still there.
C1_Witness ==
    /\ last.type = "GetEntryTimeout"
    /\ last.before.tag = "Ok"
    /\ Lookup(network_state, last.address) = last.before

\* C2: GetEntryTimeout(A) applied while A is pending (Some(None)) sets it to
\* Some(Some(Err(Timeout))).
C2_TimeoutResolvesPending ==
    [][\A a \in Addresses :
          (IsStep("GetEntryTimeout", a) /\ Lookup(network_state, a) = Pending)
              => Lookup(network_state', a) = ResErr(ErrTimeout)]_vars

C2_Witness ==
    /\ last.type = "GetEntryTimeout"
    /\ last.before = Pending
    /\ Lookup(network_state, last.address) = ResErr(ErrTimeout)

\* C3 as stated: once A holds a terminal value, no later action carrying the
\* same address changes it.
C3_TerminalNeverChanges ==
    [][\A a \in Addresses :
          (last'.address = a /\ Resolved(Lookup(network_state, a)))
              => Lookup(network_state', a) = Lookup(network_state, a)]_vars

\* C3 amended: a terminal value of A is never changed by GetEntryTimeout(A) nor by
\* an action for another address; it is replaced only by a re-issued GetEntry(A)
\* (by pending or by that request's error) or by a get result for A (by the
\* delivered content), and the key is never removed.
C3_TerminalChangesOnlyByRequestOrResult ==
    [][\A a \in Addresses :
          (Resolved(Lookup(network_state, a))
           /\ Lookup(network_state', a) # Lookup(network_state, a))
              => \/ /\ IsStep("GetEntry", a)
                    /\ Lookup(network_state', a) \in
                          {Pending, ResErr(ErrNotInitialized), ResErr(ErrIo)}
                 \/ /\ IsStep("HandleGetResult", a)
                    /\ Lookup(network_state', a) = ResOk(last'.arg)]_vars

\* A terminal value was replaced by a re-issued GetEntry.
C3_Witness ==
    /\ last.type = "GetEntry"
    /\ Resolved(last.before)
    /\ Lookup(network_state, last.address) = Pending

\* C4: GetEntry(A) applied while the network is uninitialized leaves
\* Some(Some(Err(Generic("Network not initialized")))) under A.
C4_GetEntryUninitialized ==
    [][\A a \in Addresses :
          (IsStep("GetEntry", a) /\ network_state.network = "None")
              => Lookup(network_state', a) = ResErr(ErrNotInitialized)]_vars

C4_Witness ==
    /\ last.type = "GetEntry"
    /\ network_state.network = "None"
    /\ Lookup(network_state, last.address) = ResErr(ErrNotInitialized)

\* C5 as stated: GetEntry(A) applied after InitNetwork leaves Some(None) under A.
C5_GetEntryInitializedPending ==
    [][\A a \in Addresses :
          (IsStep("GetEntry", a) /\ network_state.network = "Some")
              => Lookup(network_state', a) = Pending]_vars

\* C5 amended: GetEntry(A) applied after InitNetwork leaves Some(None) under A when
\* the transport took the request, and Some(Some(Err(e))) when the send failed
\* with e; it is never absent and never the not-initialized error.
C5_GetEntryInitializedPendingOrSendError ==
    [][\A a \in Addresses :
          (IsStep("GetEntry", a) /\ network_state.network = "Some")
              => Lookup(network_state', a) =
                    (IF last'.arg = "Ok" THEN Pending ELSE ResErr(last'.arg))]_vars

\* GetEntry left the key pending on an initialized network.
C5_Witness ==
    /\ last.type = "GetEntry"
    /\ last.arg = "Ok"
    /\ network_state.network = "Some"
    /\ Lookup(network_state, last.address) = Pending

\* C6: the GetEntry reducer always leaves key A present; A is pending exactly
\* when a GetDhtData request with address A and the state's dna_address and
\* agent_id was handed to the transport, and otherwise A holds Err(e) for the
\* error e of the initialization check or of the send, and nothing was sent.
C6_GetEntryTotal ==
    [][\A a \in Addresses :
          IsStep("GetEntry", a)
              => LET request == [msg_id |-> "?",
                                 dna_address |-> network_state.dna_address,
                                 from_agent_id |-> network_state.agent_id,
                                 address |-> a]
                     handed == network_state'.sent = Append(network_state.sent, request)
                     e == IF network_state.network = "None"
                          THEN ErrNotInitialized ELSE last'.arg
                 IN /\ Has(network_state'.get_entry_with_meta_results, a)
                    /\ (Lookup(network_state', a) = Pending) <=> handed
                    /\ ~handed => /\ network_state'.sent = network_state.sent
                                  /\ Lookup(network_state', a) = ResErr(e)]_vars

\* A send failure was stored as a value.
C6_Witness ==
    /\ last.type = "GetEntry"
    /\ Lookup(network_state, last.address) = ResErr(ErrIo)
    /\ Len(network_state.sent) > 0

\* ------------------------------------------------ the action channel
\* The actions the threads dispatch for one address.
DispatchActions ==
    {[type |-> "InitNetwork", address |-> "-", arg |-> "-"],
     [type |-> "GetEntry", address |-> "a1", arg |-> "-"],
     [type |-> "GetEntryTimeout", address |-> "a1", arg |-> "-"],
     [type |-> "HandleGetResult", address |-> "a1", arg |-> "entry1"]}

\* Store::reduce: the reducer registered for the action's variant is run.
reduce(ns, action, io) ==
    CASE action.type = "InitNetwork" -> reduce_init(ns, TestDna, TestAgent)
      [] action.type = "GetEntry" -> reduce_get_entry(ns, action.address, io)
      [] action.type = "GetEntryTimeout" -> reduce_get_entry_timeout(ns, action.address)
      [] action.type = "HandleGetResult" ->
            reduce_handle_get_result(ns, action.address, action.arg)
      [] OTHER -> ns

\* ActionWrapper::new(action): the wrapper gets the next unique id.
\* A get result is only produced by an initialized network.
CreateAction(t, action) ==
    /\ outgoing[t] = NoWrapper
    /\ nextId <= MaxDispatch
    /\ action.type = "HandleGetResult" => initialized(network_state)
    /\ outgoing' = [outgoing EXCEPT ![t] = [id |-> nextId, action |-> action]]
    /\ nextId' = nextId + 1
    /\ UNCHANGED <<network_state, last, channel, received, applied, pkgVars, restVars>>

\* context.action_channel.send(action_wrapper)
SendAction(t) ==
    /\ outgoing[t] # NoWrapper
    /\ channel' = Append(channel, outgoing[t])
    /\ received' = Append(received, outgoing[t])
    /\ outgoing' = [outgoing EXCEPT ![t] = NoWrapper]
    /\ UNCHANGED <<network_state, last, applied, nextId, pkgVars, restVars>>

\* Mutant: the loop takes the wrapper sent last.
ReducerLoop_lifo(io) ==
    /\ channel # <<>>
    /\ LET aw == channel[Len(channel)] IN
       /\ (aw.action.type = "GetEntry") = (io # "-")
       /\ network_state' = reduce(network_state, aw.action, io)
       /\ applied' = Append(applied, [aw |-> aw, io |-> io])
    /\ channel' = SubSeq(channel, 1, Len(channel) - 1)
    /\ UNCHANGED <<last, received, outgoing, nextId, pkgVars, restVars>>

\* The reducer loop: receive the next wrapper, reduce the state with it and
\* publish the new state.
ReducerLoop(io) ==
    /\ channel # <<>>
    /\ LET aw == Head(channel) IN
       /\ (aw.action.type = "GetEntry") = (io # "-")
       /\ network_state' = reduce(network_state, aw.action, io)
       /\ applied' = Append(applied, [aw |-> aw, io |-> io])
    /\ channel' = Tail(channel)
    /\ UNCHANGED <<last, received, outgoing, nextId, pkgVars, restVars>>

NextDispatch ==
    \/ \E t \in Threads, action \in DispatchActions : CreateAction(t, action)
    \/ \E t \in Threads : SendAction(t)
    \/ \E io \in {"-", "Ok", ErrIo} : ReducerLoop(io)

SpecDispatch == InitNet /\ [][NextDispatch]_vars

\* ----------------------------------------------------------- claim C7
RECURSIVE FoldReduce(_, _)
FoldReduce(ns, log) ==
    IF log = <<>>
    THEN ns
    ELSE FoldReduce(reduce(ns, Head(log).aw.action, Head(log).io), Tail(log))

AppliedWrappers == [i \in 1..Len(applied) |-> applied[i].aw]

\* C7: actions dispatched from several threads are applied one at a time in the
\* order the channel received them: the wrappers applied so far are a prefix of
\* the received sequence, the rest is still in the channel in that order, no
\* wrapper occurs twice, and the published state is the reducers folded over
\* the applied prefix.
C7_SerialInReceiptOrder ==
    /\ received = AppliedWrappers \o channel
    /\ \A i, j \in 1..Len(received) : received[i].id = received[j].id => i = j
    /\ network_state = FoldReduce(InitNetworkState, applied)

\* Two wrappers were received in the opposite order of their creation and both
\* have been applied.
C7_Witness ==
    /\ Len(applied) >= 2
    /\ applied[1].aw.id > applied[2].aw.id
    /\ applied[1].aw.action.type = "InitNetwork"
    /\ applied[2].aw.action.type = "GetEntry"

\* ------------------------------------------- build_validation_package
\* The entries of a sequence of fetched Options (every fetch was Some).
Unwrapped(options) == [i \in 1..Len(options) |-> options[i].v]

\* Mutant: the ChainEntries arm also fills source_chain_headers.
build_package_entries_with_headers(def, entry_header, ch_e, ch_h, store) ==
    LET package == only_header(entry_header)
        entries == Some(Unwrapped(all_public_chain_entries(ch_e, store)))
        headers == Some(all_public_chain_headers(ch_h))
    IN CASE def.kind = "Entry" -> package
         [] def.kind = "ChainEntries" ->
               [package EXCEPT !.source_chain_entries = entries,
                               !.source_chain_headers = headers]
         [] def.kind = "ChainHeaders" ->
               [package EXCEPT !.source_chain_headers = headers]
         [] def.kind = "ChainFull" ->
               [package EXCEPT !.source_chain_entries = entries,
                               !.source_chain_headers = headers]
         [] def.kind = "Custom" -> [package EXCEPT !.custom = Some(def.arg)]

\* The match on the package definition: ch_e and ch_h are the chain as read by
\* all_public_chain_entries and by all_public_chain_headers.
build_package(def, entry_header, ch_e, ch_h, store) ==
    LET package == only_header(entry_header)
        entries == Some(Unwrapped(all_public_chain_entries(ch_e, store)))
        headers == Some(all_public_chain_headers(ch_h))
    IN CASE def.kind = "Entry" -> package
         [] def.kind = "ChainEntries" ->
               [package EXCEPT !.source_chain_entries = entries]
         [] def.kind = "ChainHeaders" ->
               [package EXCEPT !.source_chain_headers = headers]
         [] def.kind = "ChainFull" ->
               [package EXCEPT !.source_chain_entries = entries,
                               !.source_chain_headers = headers]
         [] def.kind = "Custom" -> [package EXCEPT !.custom = Some(def.arg)]

\* The future a call returns: future::err(error), or a ValidationPackageFuture
\* that reads validation_packages under its key; outcome is what a poll
\* completed it with.
\* wasPending records that some poll returned Pending. woken: the task that
\* awaits the future is scheduled for a poll (it is when the future is first
\* awaited, and after a poll that woke the waker). dropped: the caller dropped
\* the future before it completed.
FutureErr(e) ==
    [kind |-> "err", error |-> e, outcome |-> NoResult, wasPending |-> FALSE,
     woken |-> TRUE, dropped |-> FALSE]
ValidationPackageFuture ==
    [kind |-> "state", error |-> <<"-", "">>, outcome |-> NoResult,
     wasPending |-> FALSE, woken |-> TRUE, dropped |-> FALSE]

\* Mutant: the early return for an unknown entry type is missing.
build_validation_package_no_return(entry, id, ch) ==
    LET found == chain_header(entry, ch)
        entry_header == IF found.some THEN found.v
                        ELSE create_new_chain_header(entry, ch)
    IN [id |-> id, entry |-> entry, worker |-> "spawned",
        header |-> entry_header, def |-> NoDefinition, result |-> NoResult,
        reads |-> 1, snapE |-> 0, snapH |-> 0,
        future |-> IF get_zome_name_for_entry_type(entry.entry_type) = "None"
                   THEN FutureErr(ErrUnknownEntryType)
                   ELSE ValidationPackageFuture]

\* build_validation_package(entry, context), up to the returned future: the
\* record of the call, with the worker thread it spawned (or none).
build_validation_package(entry, id, ch) ==
    IF get_zome_name_for_entry_type(entry.entry_type) = "None"
    THEN [id |-> id, entry |-> entry, worker |-> "none",
          header |-> NoHeader, def |-> NoDefinition, result |-> NoResult,
          reads |-> 0, snapE |-> 0, snapH |-> 0,
          future |-> FutureErr(ErrUnknownEntryType)]
    ELSE LET found == chain_header(entry, ch)
             entry_header == IF found.some THEN found.v
                             ELSE create_new_chain_header(entry, ch)
         IN [id |-> id, entry |-> entry, worker |-> "spawned",
             header |-> entry_header, def |-> NoDefinition, result |-> NoResult,
             reads |-> 1, snapE |-> 0, snapH |-> 0,
             future |-> ValidationPackageFuture]

\* Mutant: the header created for an entry that is not on the chain is also
\* appended to the chain.
BuildValidationPackage_persist(entry) ==
    /\ Len(builds) < MaxBuilds
    /\ builds' = Append(builds, build_validation_package(entry, nextId, chain))
    /\ nextId' = nextId + 1
    /\ chain' = IF chain_header(entry, chain).some
                THEN chain
                ELSE Append(chain, create_new_chain_header(entry, chain))
    /\ UNCHANGED <<restVars, netVars, channel, received, applied, outgoing,
                   cas, validation_packages>>

\* A call of build_validation_package from some thread.
BuildValidationPackage(entry) ==
    /\ Len(builds) < MaxBuilds
    /\ builds' = Append(builds, build_validation_package(entry, nextId, chain))
    /\ nextId' = nextId + 1
    /\ UNCHANGED <<restVars, netVars, channel, received, applied, outgoing,
                   chain, cas, validation_packages>>

\* Mutant: every call takes the same request id.
BuildConcurrently_same_id(entry) ==
    /\ Len(builds) < MaxConcurrent
    /\ builds' = Append(builds, build_validation_package(entry, 1, chain))
    /\ nextId' = nextId + 1
    /\ UNCHANGED <<restVars, netVars, channel, received, applied, outgoing,
                   chain, cas, validation_packages>>

\* A call of build_validation_package while earlier calls are still in flight:
\* `let id = snowflake::ProcessUniqueId::new()`, an id no other call of the
\* process gets.
BuildConcurrently(entry) ==
    /\ Len(builds) < MaxConcurrent
    /\ builds' = Append(builds, build_validation_package(entry, nextId, chain))
    /\ nextId' = nextId + 1
    /\ UNCHANGED <<restVars, netVars, channel, received, applied, outgoing,
                   chain, cas, validation_packages>>

\* The worker thread: the callback, then the match on its result. With ChainFull
\* the entries are read here and the headers in a later step. `fetch` is the
\* answer of content_storage().fetch: "Ok", or an error of the storage; an
\* error, or an entry that is not stored, makes `expect` panic and the thread
\* ends without sending anything.
WorkerAssemble(i, cb, fetch) ==
    /\ builds[i].worker = "spawned"
    /\ LET b == builds[i]
           isDef == cb \in PackageDefinitions
           readsEntries == cb.kind \in {"ChainEntries", "ChainFull"}
           readsHeaders == cb.kind = "ChainHeaders"
           fetched == all_public_chain_entries(chain, cas)
           missing == /\ readsEntries
                      /\ \/ fetch # "Ok"
                         \/ \E k \in 1..Len(fetched) : ~fetched[k].some
       IN /\ fetch # "Ok" => readsEntries /\ fetched # <<>>
          /\ builds' = [builds EXCEPT ![i] =
             [b EXCEPT
                !.def = cb,
                !.reads = @ + (IF readsEntries \/ readsHeaders THEN 1 ELSE 0),
                !.snapE = IF readsEntries THEN Len(chain) ELSE 0,
                !.snapH = IF readsHeaders THEN Len(chain) ELSE 0,
                !.result = IF ~isDef THEN PkgErr(ErrGenericCallback(cb))
                           ELSE IF missing \/ cb.kind = "ChainFull" THEN NoResult
                           ELSE PkgOk(build_package(cb, b.header, chain, chain, cas)),
                !.worker = IF missing THEN "panicked"
                           ELSE IF cb.kind = "ChainFull" THEN "headers"
                           ELSE "send"]]
    /\ UNCHANGED <<restVars, netVars, dispatchVars, chain, cas, validation_packages>>

\* The worker thread, ChainFull: all_public_chain_headers, read after the entries.
WorkerReadHeaders(i) ==
    /\ builds[i].worker = "headers"
    /\ LET b == builds[i] IN
       builds' = [builds EXCEPT ![i] =
             [b EXCEPT
                !.reads = @ + 1,
                !.snapH = Len(chain),
                !.result = PkgOk(build_package(b.def, b.header,
                                               SubSeq(chain, 1, b.snapE), chain, cas)),
                !.worker = "send"]]
    /\ UNCHANGED <<restVars, netVars, dispatchVars, chain, cas, validation_packages>>

\* The worker thread: action_channel.send(ActionWrapper::new(
\* Action::ReturnValidationPackage((id, maybe_validation_package)))). The
\* wrapper's own id is read by no reducer and is left out.
WorkerSend(i) ==
    /\ builds[i].worker = "send"
    /\ LET aw == [id |-> 0,
                  action |-> [type |-> "ReturnValidationPackage",
                              address |-> builds[i].id,
                              arg |-> builds[i].result]]
       IN /\ channel' = Append(channel, aw)
          /\ received' = Append(received, aw)
    /\ builds' = [builds EXCEPT ![i].worker = "done"]
    /\ UNCHANGED <<restVars, netVars, applied, outgoing, nextId, chain, cas, validation_packages>>

\* The reducer loop applying ReturnValidationPackage: the result is stored
\* under the request id.
ReduceReturnValidationPackage ==
    /\ channel # <<>>
    /\ LET aw == Head(channel) IN
       /\ validation_packages' = Insert(validation_packages, aw.action.address,
                                        aw.action.arg)
       /\ applied' = Append(applied, [aw |-> aw, io |-> "-"])
    /\ channel' = Tail(channel)
    /\ UNCHANGED <<restVars, netVars, received, outgoing, nextId, chain, cas, builds>>

\* Mutant: a stored error is taken for no entry.
poll_err_pending(key, state) ==
    IF state.some /\ Has(state.v, key) /\ state.v[key].ok
    THEN state.v[key]
    ELSE NoResult

\* ValidationPackageFuture::poll: `state` is context.state(), an Option of the
\* state's validation_packages. The entry under the key completes the future
\* (Ready for Ok, the error for Err); NoResult stands for Async::Pending.
poll(key, state) ==
    IF state.some
    THEN IF Has(state.v, key) THEN state.v[key] ELSE NoResult
    ELSE NoResult

\* Mutant: the waker is woken only by a poll that found the result.
poll_wake_on_ready(result) == result # NoResult

\* cx.waker().wake(), the first statement of poll: the task is scheduled for
\* another poll whatever this poll returns.
poll_wake(result) == TRUE

\* The runtime polls the future of call i: future::err fails at once; a
\* ValidationPackageFuture reads the state current at this poll (the state is
\* set, build_validation_package has read it). A completed future is not
\* polled again, a task that was not woken is not polled, and a dropped future
\* is polled by nobody.
PollFuture(i) ==
    /\ builds[i].future.outcome = NoResult
    /\ builds[i].future.woken
    /\ ~builds[i].future.dropped
    /\ LET f == builds[i].future
           outcome == IF f.kind = "err" THEN PkgErr(f.error)
                      ELSE poll(builds[i].id, Some(validation_packages))
       IN builds' = [builds EXCEPT ![i].future.outcome = outcome,
                                   ![i].future.wasPending = @ \/ outcome = NoResult,
                                   ![i].future.woken = poll_wake(outcome)]
    /\ UNCHANGED <<restVars, netVars, dispatchVars, chain, cas, validation_packages>>

\* The caller drops the future before it completed. The worker thread was
\* spawned detached (its JoinHandle is not kept) and holds its own clones of the
\* context and of the id: nothing of it changes.
DropFuture(i) ==
    /\ builds[i].future.outcome = NoResult
    /\ ~builds[i].future.dropped
    /\ builds' = [builds EXCEPT ![i].future.dropped = TRUE]
    /\ UNCHANGED <<restVars, netVars, dispatchVars, chain, cas, validation_packages>>

\* build_validation_package, Some(_) arm, up to the return of chain_header:
\* the chain is walked in the state current at this call. The record of the
\* call holds what was found (NoHeader for None); no worker is spawned yet.
BuildChainHeader(entry) ==
    /\ Len(builds) < MaxBuilds
    /\ get_zome_name_for_entry_type(entry.entry_type) # "None"
    /\ builds' = Append(builds,
          [id |-> nextId, entry |-> entry, worker |-> "called",
           header |-> unwrap_or(chain_header(entry, chain), NoHeader),
           def |-> NoDefinition, result |-> NoResult,
           reads |-> 1, snapE |-> 0, snapH |-> 0,
           future |-> ValidationPackageFuture])
    /\ nextId' = nextId + 1
    /\ UNCHANGED <<restVars, netVars, channel, received, applied, outgoing,
                   chain, cas, validation_packages>>

\* build_validation_package, the rest of the Some(_) arm: the argument of
\* unwrap_or, create_new_chain_header on the agent state read now, then the
\* choice of entry_header and thread::spawn.
BuildSpawn(i) ==
    /\ builds[i].worker = "called"
    /\ LET b == builds[i]
           found == IF b.header = NoHeader THEN None(NoHeader) ELSE Some(b.header)
       IN builds' = [builds EXCEPT ![i] =
             [b EXCEPT
                !.header = unwrap_or(found, create_new_chain_header(b.entry, chain)),
                !.worker = "spawned"]]
    /\ UNCHANGED <<restVars, netVars, dispatchVars, chain, cas, validation_packages>>

\* commit_entry, on a chain that may hold up to MaxHistory headers.
CommitHistory(entry) ==
    /\ Len(chain) < MaxHistory
    /\ cas' = cas \cup {entry}
    /\ chain' = Append(chain, ChainHeader(entry, Len(chain)))
    /\ UNCHANGED <<restVars, netVars, dispatchVars, builds, validation_packages>>

\* commit_entry: the entry is stored in the CAS and its header is appended to
\* the chain.
Commit(entry) ==
    /\ Len(chain) < MaxChain
    /\ cas' = cas \cup {entry}
    /\ chain' = Append(chain, ChainHeader(entry, Len(chain)))
    /\ UNCHANGED <<restVars, netVars, dispatchVars, builds, validation_packages>>

NextPkg ==
    \/ \E entry \in BuildEntries : BuildValidationPackage(entry)
    \/ \E i \in 1..Len(builds), cb \in CallbackResults, fetch \in {"Ok", ErrIo} :
          WorkerAssemble(i, cb, fetch)
    \/ \E i \in 1..Len(builds) : WorkerReadHeaders(i)
    \/ \E i \in 1..Len(builds) : WorkerSend(i)
    \/ ReduceReturnValidationPackage
    \/ \E i \in 1..Len(builds) : PollFuture(i)
    \/ \E entry \in CommitEntries : Commit(entry)

SpecPkg == InitNet /\ [][NextPkg]_vars

\* ------------------------------------------------------ claims C8 .. C10
Elements(seq) == {seq[k] : k \in 1..Len(seq)}

\* The packages a build has produced so far: the worker's result and what the
\* future resolved with.
PackagesOf(b) ==
    {r.package : r \in {x \in {b.result, b.future.outcome} : x.ok}}

ShapeOk(package, def, entry_header) ==
    /\ package.chain_header = Some(entry_header)
    /\ entry_header # NoHeader
    /\ package.source_chain_entries.some <=> def.kind \in {"ChainEntries", "ChainFull"}
    /\ package.source_chain_headers.some <=> def.kind \in {"ChainHeaders", "ChainFull"}
    /\ package.custom = (IF def.kind = "Custom" THEN Some(def.arg) ELSE None(""))

\* C8: for each ValidationPackageDefinition returned by the callback the built
\* package has chain_header present and exactly the declared optional fields
\* populated: Entry none, ChainEntries the entries, ChainHeaders the headers,
\* ChainFull both, Custom(s) custom = s.
C8_PackageShape ==
    \A i \in 1..Len(builds) :
        \A package \in PackagesOf(builds[i]) :
            /\ builds[i].def \in PackageDefinitions
            /\ ShapeOk(package, builds[i].def, builds[i].header)

\* A future resolved with a ChainFull package that holds entries and headers.
C8_Witness ==
    \E i \in 1..Len(builds) :
        /\ builds[i].def.kind = "ChainFull"
        /\ builds[i].future.outcome.ok
        /\ builds[i].future.outcome.package.source_chain_entries.v # <<>>
        /\ builds[i].future.outcome.package.source_chain_headers.v # <<>>

\* The positions of the chain, as it was when read up to `snap`, whose entry
\* type allows publication.
PublishablePositions(snap) ==
    {k \in 1..snap : can_publish(chain[k].entry_type)}

\* C9: source_chain_entries and source_chain_headers of a built package hold an
\* entry or header of the chain (as traversed from the tip) if and only if its
\* entry type allows publication: every publishable one, once per header, and
\* none of a private type.
C9_OnlyPublishable ==
    \A i \in 1..Len(builds) :
        \A package \in PackagesOf(builds[i]) :
            LET b == builds[i]
                entries == package.source_chain_entries
                headers == package.source_chain_headers
            IN /\ entries.some =>
                    /\ \A e \in Elements(entries.v) : can_publish(e.entry_type)
                    /\ \A e \in cas :
                          (e \in Elements(entries.v)) <=>
                             \E k \in PublishablePositions(b.snapE) :
                                chain[k].entry_address = Address(e)
                    /\ Len(entries.v) = Cardinality(PublishablePositions(b.snapE))
               /\ headers.some =>
                    /\ \A h \in Elements(headers.v) : can_publish(h.entry_type)
                    /\ \A h \in Elements(chain) :
                          (h \in Elements(headers.v)) <=>
                             \E k \in PublishablePositions(b.snapH) : chain[k] = h
                    /\ Len(headers.v) = Cardinality(PublishablePositions(b.snapH))

\* A package with entries and headers was built from a chain that holds a
\* publishable and a private entry.
C9_Witness ==
    \E i \in 1..Len(builds) :
        /\ builds[i].result.ok
        /\ builds[i].def.kind = "ChainFull"
        /\ builds[i].snapE >= 2
        /\ builds[i].result.package.source_chain_entries.v # <<>>
        /\ \E k \in 1..builds[i].snapE : ~can_publish(chain[k].entry_type)

\* C10: a call with an entry whose type belongs to no zome returns a future that
\* fails at once with ValidationFailed; no worker is started, the chain is not
\* traversed and no ReturnValidationPackage is dispatched for that request id.
C10_UnknownTypeFailsAtOnce ==
    \A i \in 1..Len(builds) :
        LET b == builds[i] IN
        get_zome_name_for_entry_type(b.entry.entry_type) = "None" =>
            /\ b.future.kind = "err"
            /\ b.future.error = ErrUnknownEntryType
            /\ b.future.outcome \in {NoResult, PkgErr(ErrUnknownEntryType)}
            /\ b.worker = "none"
            /\ b.reads = 0
            /\ \A k \in 1..Len(received) : received[k].action.address # b.id
            /\ ~Has(validation_packages, b.id)

\* The future of a call with an unknown entry type was polled and failed.
C10_Witness ==
    \E i \in 1..Len(builds) :
        /\ get_zome_name_for_entry_type(builds[i].entry.entry_type) = "None"
        /\ builds[i].future.outcome = PkgErr(ErrUnknownEntryType)

\* ---------------------------------------------------------- claim C11
\* The scheduling the claim assumes: the worker thread of every call runs on,
\* the reducer loop takes what the channel holds, and the runtime polls again
\* (poll wakes its own waker at every call).
SpecPkgFair ==
    /\ InitNet
    /\ [][NextPkg]_vars
    /\ WF_vars(\E i \in 1..Len(builds), cb \in CallbackResults, fetch \in {"Ok", ErrIo} :
                  WorkerAssemble(i, cb, fetch))
    /\ WF_vars(\E i \in 1..Len(builds) : WorkerReadHeaders(i))
    /\ WF_vars(\E i \in 1..Len(builds) : WorkerSend(i))
    /\ WF_vars(ReduceReturnValidationPackage)
    /\ WF_vars(\E i \in 1..Len(builds) : PollFuture(i))

\* Call i was made with an entry of a known type (its future reads the state).
KnownTypeCall(i) == Len(builds) >= i /\ builds[i].future.kind = "state"

\* The future of call i has completed, with a package or with an error value.
Completed(i) == Len(builds) >= i /\ builds[i].future.outcome # NoResult

\* C11: under fair scheduling of the worker and of the reducer loop, the future
\* of every call on an entry of a known type eventually completes with a
\* package or an error value: no failure of a step leaves it pending forever.
C11_FutureEventuallyCompletes ==
    \A i \in 1..MaxBuilds : KnownTypeCall(i) ~> Completed(i)

\* ---------------------------------------------------------- claim C12
\* C12: a poll of a ValidationPackageFuture evaluates the state current at that
\* poll: Pending while the state is unavailable or validation_packages has no
\* entry under the key, else the entry (Ready for Ok, the stored error for
\* Err); the future completes with the entry the first poll sees, never before
\* one exists, and does not change afterwards.
C12_PollReadsCurrentState ==
    /\ [](\A i \in 1..Len(builds) :
             /\ poll(builds[i].id, None(validation_packages)) = NoResult
             /\ (builds[i].future.kind = "state" /\ builds[i].future.outcome # NoResult)
                   => /\ Has(validation_packages, builds[i].id)
                      /\ builds[i].future.outcome = validation_packages[builds[i].id])
    /\ [][\A i \in 1..Len(builds) :
             LET f == builds[i].future
                 g == builds'[i].future
                 key == builds[i].id
             IN (f.kind = "state" /\ g # f)
                   => /\ f.outcome = NoResult
                      /\ IF Has(validation_packages, key)
                         THEN /\ g.outcome = validation_packages[key]
                              /\ g.outcome # NoResult
                              /\ g.wasPending = f.wasPending
                         ELSE /\ g.outcome = NoResult
                              /\ g.wasPending]_vars

\* A poll returned Pending before the entry existed and a later poll completed
\* the future with the stored package.
C12_Witness ==
    \E i \in 1..Len(builds) :
        /\ builds[i].future.kind = "state"
        /\ builds[i].future.wasPending
        /\ builds[i].future.outcome.ok
        /\ builds[i].future.outcome = validation_packages[builds[i].id]

\* ------------------------------------------------- hold_link_workflow
\* Entry::LinkAdd(link_add): the value stands for link_add.link().
LinkEntry1 == Entry("%link_add", "link1")
LinkEntry2 == Entry("%link_add", "link2")

\* Entries a node is asked to hold with this workflow.
HoldEntries == {LinkEntry1, LinkEntry2, EntryA1}

\* EntryWithHeader { entry, header }
EntryWithHeader(entry) == [entry |-> entry, header |-> ChainHeader(entry, 1)]

\* header.sources()
Sources(header) == <<"source_of", header.entry_address>>

\* Result<_, HolochainError> of the workflow and of its awaited stages;
\* NotReturned while the awaitable has not completed.
Ok == [tag |-> "Ok", error |-> <<"-", "">>]
Err(e) == [tag |-> "Err", error |-> e]
NotReturned == [tag |-> "None", error |-> <<"-", "">>]

\* Result<Option<ValidationPackage>, HolochainError> of get_validation_package.
PackageOk(option) == [tag |-> "Ok", error |-> <<"-", "">>, v |-> option]
PackageErr(e) == [tag |-> "Err", error |-> e, v |-> None(only_header(NoHeader))]
PackageNotReturned ==
    [tag |-> "None", error |-> <<"-", "">>, v |-> None(only_header(NoHeader))]

ErrExpectsLinkAdd ==
    <<"ErrorGeneric", "hold_link_workflow expects entry to be an Entry::LinkAdd">>
ErrNoPackage ==
    <<"ErrorGeneric", "Could not get validation package from source">>

\* What the awaited collaborators may complete with.
PackageOutcomes(header) ==
    {PackageErr(<<"Timeout", "">>),
     PackageOk(None(only_header(NoHeader))),
     PackageOk(Some(only_header(header)))}
ValidationOutcomes ==
    {Ok, Err(<<"ValidationFailed", "FAIL wat">>),
     Err(<<"ErrorGeneric", "validation callback failed">>)}
AddLinkOutcomes == {Ok, Err(<<"ErrorGeneric", "add_link failed">>)}

\* ValidationData { package, sources, lifecycle, action }
ValidationData(package, header) ==
    [package |-> package, sources |-> Sources(header),
     lifecycle |-> "Meta", action |-> "Create"]
NoValidationData == ValidationData(only_header(NoHeader), NoHeader)

\* hold_link_workflow(entry_with_header, context), before its first step: the
\* record of the run. calls lists the collaborators invoked so far; the three
\* *_result fields hold what each awaited one completed with.
hold_link_workflow(entry_with_header) ==
    [entry_with_header |-> entry_with_header,
     pc |-> "Started",
     link |-> "-",
     calls |-> <<>>,
     package_result |-> PackageNotReturned,
     validation_data |-> NoValidationData,
     validation_result |-> NotReturned,
     add_link_result |-> NotReturned,
     result |-> NotReturned]

\* The workflow returns Err(e) (the `?` operator).
Fail(run, e) == [run EXCEPT !.pc = "Failed", !.result = Err(e)]

\* Mutant: the entry's variant is not checked.
match_link_add_any(run) ==
    [run EXCEPT !.link = run.entry_with_header.entry.value,
                !.pc = "AwaitingPackage",
                !.calls = Append(@, "get_validation_package")]

\* The match on the entry: a LinkAdd gives the link and get_validation_package
\* is called with the header; any other variant returns the generic error.
match_link_add(run) ==
    LET entry == run.entry_with_header.entry
    IN IF entry.entry_type = "%link_add"
       THEN [run EXCEPT !.link = entry.value,
                        !.pc = "AwaitingPackage",
                        !.calls = Append(@, "get_validation_package")]
       ELSE Fail(run, ErrExpectsLinkAdd)

\* Mutant: a missing package is replaced by an empty one.
package_returned_none_ok(run, res) ==
    LET got == [run EXCEPT !.package_result = res]
        header == run.entry_with_header.header
    IN IF res.tag = "Err"
       THEN Fail(got, res.error)
       ELSE [got EXCEPT !.validation_data = ValidationData(res.v.v, header),
                        !.pc = "Validating",
                        !.calls = Append(@, "validate_entry")]

\* Mutant: the package is taken as proof and the link is committed at once.
package_returned_skip_validation(run, res) ==
    LET got == [run EXCEPT !.package_result = res]
        header == run.entry_with_header.header
    IN IF res.tag = "Err"
       THEN Fail(got, res.error)
       ELSE IF ~res.v.some
            THEN Fail(got, ErrNoPackage)
            ELSE [got EXCEPT !.validation_data = ValidationData(res.v.v, header),
                             !.pc = "Committing",
                             !.calls = Append(@, "add_link")]

\* get_validation_package has completed with res: an error is returned as it
\* is, no package is the generic error of ok_or, a package goes into the
\* ValidationData and validate_entry is called.
package_returned(run, res) ==
    LET got == [run EXCEPT !.package_result = res]
        header == run.entry_with_header.header
    IN IF res.tag = "Err"
       THEN Fail(got, res.error)
       ELSE IF ~res.v.some
            THEN Fail(got, ErrNoPackage)
            ELSE [got EXCEPT !.validation_data = ValidationData(res.v.v, header),
                             !.pc = "Validating",
                             !.calls = Append(@, "validate_entry")]

\* Mutant: the result of the validation is dropped.
validation_returned_commits_anyway(run, res) ==
    [run EXCEPT !.validation_result = res,
                !.pc = "Committing",
                !.calls = Append(@, "add_link")]

\* Mutant: a validation failure is reported as a generic error.
validation_returned_generic(run, res) ==
    LET got == [run EXCEPT !.validation_result = res]
    IN IF res.tag = "Err"
       THEN Fail(got, <<"ErrorGeneric", res.error[2]>>)
       ELSE [got EXCEPT !.pc = "Committing",
                        !.calls = Append(@, "add_link")]

\* validate_entry has completed with res: an error is returned as it is, else
\* add_link is called with the link.
validation_returned(run, res) ==
    LET got == [run EXCEPT !.validation_result = res]
    IN IF res.tag = "Err"
       THEN Fail(got, res.error)
       ELSE [got EXCEPT !.pc = "Committing",
                        !.calls = Append(@, "add_link")]

\* add_link has completed with res, which is the workflow's result.
add_link_returned(run, res) ==
    [run EXCEPT !.add_link_result = res,
                !.result = res,
                !.pc = IF res.tag = "Ok" THEN "Succeeded" ELSE "Failed"]

\* A node is handed an entry with its header and starts the workflow.
HoldLinkWorkflow(entry) ==
    /\ Len(runs) < MaxRuns
    /\ runs' = Append(runs, hold_link_workflow(EntryWithHeader(entry)))
    /\ UNCHANGED <<netVars, dispatchVars, pkgVars, eavVars, lockVars, dht_links>>

\* The first poll of run i: up to the first await.
MatchLinkAdd(i) ==
    /\ runs[i].pc = "Started"
    /\ runs' = [runs EXCEPT ![i] = match_link_add(runs[i])]
    /\ UNCHANGED <<netVars, dispatchVars, pkgVars, eavVars, lockVars, dht_links>>

\* await!(get_validation_package(header, context)) completes.
PackageReturned(i, res) ==
    /\ runs[i].pc = "AwaitingPackage"
    /\ res \in PackageOutcomes(runs[i].entry_with_header.header)
    /\ runs' = [runs EXCEPT ![i] = package_returned(runs[i], res)]
    /\ UNCHANGED <<netVars, dispatchVars, pkgVars, eavVars, lockVars, dht_links>>

\* await!(validate_entry(entry, validation_data, context)) completes.
ValidationReturned(i, res) ==
    /\ runs[i].pc = "Validating"
    /\ runs' = [runs EXCEPT ![i] = validation_returned(runs[i], res)]
    /\ UNCHANGED <<netVars, dispatchVars, pkgVars, eavVars, lockVars, dht_links>>

\* await!(add_link(link, context)) completes: on Ok the link is held.
AddLinkReturned(i, res) ==
    /\ runs[i].pc = "Committing"
    /\ runs' = [runs EXCEPT ![i] = add_link_returned(runs[i], res)]
    /\ dht_links' = IF res.tag = "Ok" THEN dht_links \cup {runs[i].link}
                    ELSE dht_links
    /\ UNCHANGED <<netVars, dispatchVars, pkgVars, eavVars, lockVars>>

NextHold ==
    \/ \E entry \in HoldEntries : HoldLinkWorkflow(entry)
    \/ \E i \in 1..Len(runs) : MatchLinkAdd(i)
    \/ \E i \in 1..Len(runs) :
          \E res \in PackageOutcomes(runs[i].entry_with_header.header) :
             PackageReturned(i, res)
    \/ \E i \in 1..Len(runs), res \in ValidationOutcomes : ValidationReturned(i, res)
    \/ \E i \in 1..Len(runs), res \in AddLinkOutcomes : AddLinkReturned(i, res)

SpecHold == InitNet /\ [][NextHold]_vars

\* ---------------------------------------------------- claims C13 .. C17
AllCalls == <<"get_validation_package", "validate_entry", "add_link">>

\* C13: add_link is invoked only after get_validation_package returned a
\* package and validate_entry succeeded; when an earlier stage fails the
\* workflow returns that stage's error unchanged and no later stage runs; the
\* held links change only when the add_link of a validated run completes.
C13_CommitOnlyAfterValidation ==
    /\ [](\A i \in 1..Len(runs) :
             LET r == runs[i] IN
             /\ "add_link" \in Elements(r.calls)
                   => /\ r.calls = AllCalls
                      /\ r.package_result.tag = "Ok"
                      /\ r.package_result.v.some
                      /\ r.validation_data.package = r.package_result.v.v
                      /\ r.validation_result = Ok
             /\ r.package_result.tag = "Err"
                   => /\ r.pc = "Failed"
                      /\ r.result = Err(r.package_result.error)
                      /\ r.calls = <<"get_validation_package">>
             /\ r.validation_result.tag = "Err"
                   => /\ r.pc = "Failed"
                      /\ r.result = Err(r.validation_result.error)
                      /\ r.calls = <<"get_validation_package", "validate_entry">>)
    /\ [][dht_links' # dht_links
             => \E i \in 1..Len(runs) :
                   /\ runs[i].pc = "Committing"
                   /\ runs[i].validation_result = Ok
                   /\ runs'[i].pc = "Succeeded"
                   /\ dht_links' = dht_links \cup {runs[i].link}]_vars

\* One run has committed its link and another one failed on the package
\* request without holding its link.
C13_Witness ==
    \E i, j \in 1..Len(runs) :
        /\ runs[i].pc = "Succeeded"
        /\ runs[i].link \in dht_links
        /\ runs[j].package_result.tag = "Err"
        /\ runs[j].pc = "Failed"
        /\ runs[j].entry_with_header.entry.value \notin dht_links

\* C14: a run with an entry that is not a LinkAdd returns a generic error
\* before get_validation_package, validate_entry or add_link is invoked.
C14_NotLinkAddFailsFirst ==
    \A i \in 1..Len(runs) :
        LET r == runs[i] IN
        r.entry_with_header.entry.entry_type # "%link_add"
            => /\ r.pc \in {"Started", "Failed"}
               /\ r.pc = "Failed" => /\ r.result.tag = "Err"
                                     /\ r.result.error[1] = "ErrorGeneric"
               /\ r.calls = <<>>
               /\ r.package_result = PackageNotReturned
               /\ r.validation_result = NotReturned
               /\ r.add_link_result = NotReturned
               /\ dht_links \subseteq {"link1", "link2"}

\* A run with an app entry has failed.
C14_Witness ==
    \E i \in 1..Len(runs) :
        /\ runs[i].entry_with_header.entry = EntryA1
        /\ runs[i].pc = "Failed"

\* C15: when get_validation_package completes with Ok(None) the run ends in
\* the error that the validation package could not be obtained from the
\* source; validate_entry and add_link are not invoked.
C15_NoPackageIsTerminalError ==
    \A i \in 1..Len(runs) :
        LET r == runs[i] IN
        (r.package_result.tag = "Ok" /\ ~r.package_result.v.some)
            => /\ r.pc = "Failed"
               /\ r.result =
                     Err(<<"ErrorGeneric", "Could not get validation package from source">>)
               /\ r.calls = <<"get_validation_package">>
               /\ r.validation_result = NotReturned
               /\ r.add_link_result = NotReturned

\* A run of a link entry got no package.
C15_Witness ==
    \E i \in 1..Len(runs) :
        /\ runs[i].entry_with_header.entry = LinkEntry1
        /\ runs[i].package_result = PackageOk(None(only_header(NoHeader)))
        /\ runs[i].pc = "Failed"

\* C16: when validate_entry rejects the entry the run fails with that
\* ValidationFailed error, reason unmodified, add_link is not invoked and the
\* rejecting step leaves the held links as they are, although the author
\* delivered a validation package for the entry.
C16_RejectionSurfacesVerbatim ==
    /\ [](\A i \in 1..Len(runs) :
             LET r == runs[i] IN
             (r.validation_result.tag = "Err"
                /\ r.validation_result.error[1] = "ValidationFailed")
                 => /\ r.pc = "Failed"
                    /\ r.result = r.validation_result
                    /\ r.package_result.v.some
                    /\ "add_link" \notin Elements(r.calls)
                    /\ r.add_link_result = NotReturned)
    /\ [][\A i \in 1..Len(runs) :
             (runs[i].validation_result = NotReturned
                /\ runs'[i].validation_result.tag = "Err")
                 => dht_links' = dht_links]_vars

\* The author delivered a package, the holder's validation failed with the
\* application's reason and the link is not held.
C16_Witness ==
    \E i \in 1..Len(runs) :
        /\ runs[i].package_result.v.some
        /\ runs[i].result = Err(<<"ValidationFailed", "FAIL wat">>)
        /\ runs[i].link \notin dht_links

\* The transitions of the workflow's state machine.
WorkflowTransitions ==
    {<<"Started", "AwaitingPackage">>, <<"AwaitingPackage", "Validating">>,
     <<"Validating", "Committing">>, <<"Committing", "Succeeded">>}
    \cup {<<p, "Failed">> : p \in {"Started", "AwaitingPackage", "Validating", "Committing"}}

\* C17: a run starts in Started and moves along Started -> AwaitingPackage ->
\* Validating -> Committing -> Succeeded, leaving the path only to Failed; a
\* stage is left only when the awaitable of that stage completes, and a run in
\* Succeeded or Failed does not change any more.
C17_WorkflowStateMachine ==
    /\ [](\A i \in 1..Len(runs) :
             runs[i].pc = "Failed" <=> runs[i].result.tag = "Err")
    /\ [][/\ Len(runs') > Len(runs) => runs'[Len(runs')].pc = "Started"
          /\ \A i \in 1..Len(runs) :
               LET r == runs[i]
                   q == runs'[i]
               IN /\ r.pc \in {"Succeeded", "Failed"} => q = r
                  /\ q.pc = r.pc => q = r
                  /\ q.pc # r.pc => <<r.pc, q.pc>> \in WorkflowTransitions
                  /\ (q.pc # r.pc /\ r.pc = "AwaitingPackage")
                        => /\ r.package_result = PackageNotReturned
                           /\ q.package_result # PackageNotReturned
                  /\ (q.pc # r.pc /\ r.pc = "Validating")
                        => /\ r.validation_result = NotReturned
                           /\ q.validation_result # NotReturned
                  /\ (q.pc # r.pc /\ r.pc = "Committing")
                        => /\ r.add_link_result = NotReturned
                           /\ q.add_link_result # NotReturned]_vars

\* A run went through every stage and succeeded; another one failed while
\* committing.
C17_Witness ==
    \E i, j \in 1..Len(runs) :
        /\ runs[i].pc = "Succeeded"
        /\ runs[i].calls = AllCalls
        /\ runs[j].pc = "Failed"
        /\ runs[j].add_link_result.tag = "Err"

\* ------------------------------------------------ the EAV store (eav.rs)
\* Regex::is_match: some position of the attribute holds a character of the
\* class (the regex is not anchored).
is_match(attribute) ==
    \E k \in 1..Len(attribute) : attribute[k] \in ReservedCharacters

\* Mutant: the regex is anchored to the whole attribute.
validate_attribute_anchored(attribute) ==
    IF ~(attribute # <<>> /\ \A k \in 1..Len(attribute) :
                                attribute[k] \in ReservedCharacters)
    THEN Ok
    ELSE Err(<<"ErrorGeneric", "Attribute name invalid">>)

\* validate_attribute(attribute)
validate_attribute(attribute) ==
    IF ~is_match(attribute)
    THEN Ok
    ELSE Err(<<"ErrorGeneric", "Attribute name invalid">>)

\* EntityAttributeValue::new(entity, attribute, value)
EntityAttributeValue_new(entity, attribute, value) ==
    LET checked == validate_attribute(attribute)
    IN IF checked.tag = "Err"
       THEN EavErr(checked.error)
       ELSE EavOk(EntityAttributeValue(entity, attribute, value))

\* The triples the store is handed: those EntityAttributeValue::new returned.
StoreTriples ==
    {made.eav : made \in {m \in {EntityAttributeValue_new(e, a, v) :
                                      e \in Addresses, a \in StoreAttributes,
                                      v \in Addresses} : m.tag = "Ok"}}

\* The constraints fetch_eav is called with.
Queries ==
    [entity : {None("-")} \cup {Some(e) : e \in Addresses},
     attribute : {None(<<>>)} \cup {Some(a) : a \in StoreAttributes},
     value : {None("-")} \cup {Some(v) : v \in Addresses}]

\* Content (a JSON string) that try_from_content is handed: an object with the
\* three fields, or something else.
EavContent(entity, attribute, value) ==
    [json |-> "object", entity |-> entity, attribute |-> attribute, value |-> value]
MalformedContent ==
    [json |-> "malformed", entity |-> "-", attribute |-> <<>>, value |-> "-"]
EavContents ==
    {EavContent("a1", <<"a">>, "a2"), EavContent("a1", <<"a", ":">>, "a2"),
     MalformedContent}

\* EntityAttributeValue::try_from_content: content.try_into(), the derived
\* deserialization, which fills the three fields from the JSON object.
try_from_content(content) ==
    IF content.json = "object"
    THEN EavOk(EntityAttributeValue(content.entity, content.attribute, content.value))
    ELSE EavErr(<<"SerializationError", "">>)

\* The triples obtained from content.
DeserializedTriples ==
    {made.eav : made \in {m \in {try_from_content(c) : c \in EavContents} :
                              m.tag = "Ok"}}

\* Mutant: the inserted triple replaces what was stored.
unthreadable_add_eav_replace(store, eav) == SetToBag({eav})

\* Mutant: every insert adds a copy (a Vec push).
unthreadable_add_eav_push(store, eav) == store (+) SetToBag({eav})

\* unthreadable_add_eav: HashSet::insert leaves the set as it is when it holds
\* an equal element; the call returns Ok(()) either way.
unthreadable_add_eav(store, eav) ==
    IF BagIn(eav, store) THEN store ELSE store (+) SetToBag({eav})

\* Mutant: an open constraint matches nothing.
unthreadable_fetch_eav_closed(store, entity, attribute, value) ==
    LET by_entity == {eav \in BagToSet(store) :
                         entity.some /\ eav.entity = entity.v}
        by_attribute == {eav \in by_entity :
                            attribute.some /\ eav.attribute = attribute.v}
    IN {eav \in by_attribute : value.some /\ eav.value = value.v}

\* Mutant: the attribute filter is missing.
unthreadable_fetch_eav_no_attribute(store, entity, attribute, value) ==
    LET by_entity == {eav \in BagToSet(store) :
                         IF entity.some THEN eav.entity = entity.v ELSE TRUE}
    IN {eav \in by_entity :
           IF value.some THEN eav.value = value.v ELSE TRUE}

\* unthreadable_fetch_eav: the three filters over the stored triples, collected
\* into a HashSet.
unthreadable_fetch_eav(store, entity, attribute, value) ==
    LET by_entity == {eav \in BagToSet(store) :
                         IF entity.some THEN eav.entity = entity.v ELSE TRUE}
        by_attribute == {eav \in by_entity :
                            IF attribute.some THEN eav.attribute = attribute.v
                            ELSE TRUE}
    IN {eav \in by_attribute :
           IF value.some THEN eav.value = value.v ELSE TRUE}

\* ExampleEntityAttributeValueStorage::add_eav, under the write lock.
AddEav(eav) ==
    /\ BagCardinality(storage) < MaxStore \/ BagIn(eav, storage)
    /\ storage' = unthreadable_add_eav(storage, eav)
    /\ eav_last' = [op |-> "add", eav |-> eav, query |-> NoQuery, fetched |-> {},
                    result |-> IF BagIn(eav, storage) THEN "Ok, was stored"
                               ELSE "Ok, was new"]
    /\ UNCHANGED <<netVars, dispatchVars, pkgVars, holdVars, lockVars, constructed>>

\* ExampleEntityAttributeValueStorage::fetch_eav, under the read lock.
FetchEav(query) ==
    /\ eav_last' = [op |-> "fetch", eav |-> NoEav, query |-> query,
                    fetched |-> unthreadable_fetch_eav(storage, query.entity,
                                                       query.attribute, query.value),
                    result |-> "Ok"]
    /\ UNCHANGED <<netVars, dispatchVars, pkgVars, holdVars, lockVars, storage, constructed>>

NextEav ==
    \/ \E eav \in StoreTriples \cup DeserializedTriples : AddEav(eav)
    \/ \E query \in Queries : FetchEav(query)

SpecEav == InitNet /\ [][NextEav]_vars

\* A call of EntityAttributeValue::new.
New(entity, attribute, value) ==
    /\ constructed' = [called |-> TRUE, entity |-> entity, attribute |-> attribute,
                       value |-> value,
                       result |-> EntityAttributeValue_new(entity, attribute, value)]
    /\ UNCHANGED <<netVars, dispatchVars, pkgVars, holdVars, lockVars, storage, eav_last>>

NextEavNew ==
    \E entity \in Addresses, attribute \in Attributes, value \in Addresses :
        New(entity, attribute, value)

SpecEavNew == InitNet /\ [][NextEavNew]_vars

\* ---------------------------------------------------- claims C18 .. C20
\* The five constraint combinations of the round trip for a triple.
RoundTripQueries(t) ==
    {[entity |-> Some(t.entity), attribute |-> Some(t.attribute), value |-> Some(t.value)],
     [entity |-> None("-"), attribute |-> Some(t.attribute), value |-> Some(t.value)],
     [entity |-> Some(t.entity), attribute |-> None(<<>>), value |-> Some(t.value)],
     [entity |-> Some(t.entity), attribute |-> Some(t.attribute), value |-> None("-")],
     NoQuery}

\* C18: a fetch on the empty store returns the empty set; when the triple
\* (e,a,v) was added and nothing else is stored, a fetch with (e,a,v),
\* (None,a,v), (e,None,v), (e,a,None) or (None,None,None) returns exactly
\* {(e,a,v)}.
C18_RoundTrip ==
    eav_last.op = "fetch"
        => /\ storage = EmptyBag => eav_last.fetched = {}
           /\ \A t \in StoreTriples :
                 (BagToSet(storage) = {t} /\ eav_last.query \in RoundTripQueries(t))
                     => eav_last.fetched = {t}

\* One triple is stored and a fetch with the entity left open returned it.
C18_Witness ==
    /\ eav_last.op = "fetch"
    /\ ~eav_last.query.entity.some
    /\ eav_last.query.attribute.some
    /\ eav_last.query.value.some
    /\ BagCardinality(storage) = 1
    /\ eav_last.fetched = BagToSet(storage)

\* C19: EntityAttributeValue::new fails, and makes no triple, if and only if
\* the attribute holds one of / : * ? < > " ' \ | + ; any other attribute, in
\* particular one of alphanumerics and underscores only, is accepted.
C19_AttributeValidation ==
    constructed.called
        => LET rejected ==
                  \E k \in 1..Len(constructed.attribute) :
                     constructed.attribute[k] \in
                        {"/", ":", "*", "?", "<", ">", "\"", "'", "\\", "|", "+"}
           IN /\ rejected <=> constructed.result.tag = "Err"
              /\ rejected => constructed.result.eav = NoEav
              /\ ~rejected =>
                    constructed.result.eav =
                       EntityAttributeValue(constructed.entity, constructed.attribute,
                                            constructed.value)
              /\ (\A k \in 1..Len(constructed.attribute) :
                     constructed.attribute[k] \in {"a", "1", "_"})
                    => constructed.result.tag = "Ok"

\* An attribute with a backslash after an underscore was rejected.
C19_Witness ==
    /\ constructed.called
    /\ constructed.attribute = <<"_", "\\">>
    /\ constructed.result.tag = "Err"

\* C20: an add of a triple that is stored already returns Ok and leaves the
\* stored set as it is; an add of a new one stores it; the store holds every
\* triple once.
C20_AddIdempotent ==
    /\ [](\A t \in BagToSet(storage) : CopiesIn(t, storage) = 1)
    /\ [][eav_last'.op = "add"
             => /\ eav_last'.result \in {"Ok, was stored", "Ok, was new"}
                /\ BagIn(eav_last'.eav, storage) => storage' = storage
                /\ BagToSet(storage') = BagToSet(storage) \cup {eav_last'.eav}]_vars

\* A triple was added a second time and is stored once, next to another one.
C20_Witness ==
    /\ eav_last.op = "add"
    /\ eav_last.result = "Ok, was stored"
    /\ CopiesIn(eav_last.eav, storage) = 1
    /\ BagCardinality(storage) = 2

\* ---------------------------------------------------- claims C21 .. C23
\* C21: a fetch returns exactly the stored triples that equal every supplied
\* constraint in the corresponding field, an absent constraint matching
\* anything; with no constraint it returns every stored triple.
C21_FetchMatchesConstraints ==
    eav_last.op = "fetch"
        => LET q == eav_last.query IN
           /\ eav_last.fetched =
                 {t \in BagToSet(storage) :
                     /\ q.entity.some => t.entity = q.entity.v
                     /\ q.attribute.some => t.attribute = q.attribute.v
                     /\ q.value.some => t.value = q.value.v}
           /\ q = NoQuery => eav_last.fetched = BagToSet(storage)
           /\ eav_last.result = "Ok"

\* Two triples with the same entity and value and different attributes are
\* stored; a fetch constrained in all three fields returned one of them.
C21_Witness ==
    /\ eav_last.op = "fetch"
    /\ eav_last.query.entity.some
    /\ eav_last.query.attribute.some
    /\ eav_last.query.value.some
    /\ Cardinality(eav_last.fetched) = 1
    /\ \E t, u \in BagToSet(storage) :
          /\ t.entity = u.entity
          /\ t.value = u.value
          /\ t.attribute # u.attribute

\* C22: the store is append-only: no step removes or alters a stored triple,
\* a fetch leaves the stored set as it is, and an unconstrained fetch returns
\* every triple stored so far.
C22_AppendOnly ==
    /\ [](eav_last.op = "fetch" /\ eav_last.query = NoQuery
             => eav_last.fetched = BagToSet(storage))
    /\ [][/\ \A t \in BagToSet(storage) : BagIn(t, storage')
          /\ eav_last'.op = "fetch" => storage' = storage
          /\ eav_last'.op = "add" =>
                BagToSet(storage') = BagToSet(storage) \cup {eav_last'.eav}]_vars

\* After two adds an unconstrained fetch returned both triples.
C22_Witness ==
    /\ eav_last.op = "fetch"
    /\ eav_last.query = NoQuery
    /\ Cardinality(eav_last.fetched) = 2
    /\ eav_last.fetched = BagToSet(storage)

\* C23: every triple the store holds has an attribute without a reserved
\* character, whichever way the triple was obtained.
C23_StoredAttributesPathSafe ==
    \A t \in BagToSet(storage) :
        \A k \in 1..Len(t.attribute) :
            t.attribute[k] \notin
               {"/", ":", "*", "?", "<", ">", "\"", "'", "\\", "|", "+"}

\* ------------------------------------- the RwLock around the EAV storage
\* The triples and the constraints the threads call the shared store with.
LockTriples ==
    {EntityAttributeValue_new("a1", <<"a">>, "a2").eav,
     EntityAttributeValue_new("a2", <<"a">>, "a1").eav}
LockQueries ==
    {NoQuery, [entity |-> Some("a1"), attribute |-> None(<<>>), value |-> None("-")]}

\* Mutant: a writer is let in while readers hold the lock.
can_write_with_readers(lock) == lock.writer = "none"

\* RwLock::write returns its guard when no writer and no reader holds the lock.
can_write(lock) == lock.writer = "none" /\ lock.readers = {}

\* RwLock::read returns its guard when no writer holds the lock.
can_read(lock) == lock.writer = "none"

\* A thread calls add_eav(eav) and is at self.content.write().
CallAddEav(t, eav) ==
    /\ eav_threads[t].pc = "idle"
    /\ eav_threads' = [eav_threads EXCEPT ![t] = [Idle EXCEPT !.pc = "want_write",
                                                              !.eav = eav]]
    /\ UNCHANGED <<netVars, dispatchVars, pkgVars, holdVars, eavVars, rwlock>>

\* content.write().unwrap(): the thread gets the write guard.
AcquireWrite(t) ==
    /\ eav_threads[t].pc = "want_write"
    /\ can_write(rwlock)
    /\ rwlock' = [rwlock EXCEPT !.writer = t]
    /\ eav_threads' = [eav_threads EXCEPT ![t].pc = "writing"]
    /\ UNCHANGED <<netVars, dispatchVars, pkgVars, holdVars, eavVars>>

\* unthreadable_add_eav under the guard; the guard is dropped at the end of the
\* statement and add_eav returns.
InsertAndRelease(t) ==
    /\ eav_threads[t].pc = "writing"
    /\ storage' = unthreadable_add_eav(storage, eav_threads[t].eav)
    /\ rwlock' = [rwlock EXCEPT !.writer = "none"]
    /\ eav_threads' = [eav_threads EXCEPT ![t] = Idle]
    /\ UNCHANGED <<netVars, dispatchVars, pkgVars, holdVars, eav_last, constructed>>

\* A thread calls fetch_eav(query) and is at self.content.read().
CallFetchEav(t, query) ==
    /\ eav_threads[t].pc = "idle"
    /\ eav_threads' = [eav_threads EXCEPT ![t] = [Idle EXCEPT !.pc = "want_read",
                                                              !.query = query]]
    /\ UNCHANGED <<netVars, dispatchVars, pkgVars, holdVars, eavVars, rwlock>>

\* content.read().unwrap(): the thread gets a read guard; begin is the set as
\* it is then.
AcquireRead(t) ==
    /\ eav_threads[t].pc = "want_read"
    /\ can_read(rwlock)
    /\ rwlock' = [rwlock EXCEPT !.readers = @ \cup {t}]
    /\ eav_threads' = [eav_threads EXCEPT ![t].pc = "reading",
                                          ![t].begin = storage]
    /\ UNCHANGED <<netVars, dispatchVars, pkgVars, holdVars, eavVars>>

\* unthreadable_fetch_eav under the read guard.
FetchUnderGuard(t) ==
    /\ eav_threads[t].pc = "reading"
    /\ LET q == eav_threads[t].query IN
       eav_threads' =
          [eav_threads EXCEPT
             ![t].pc = "fetched",
             ![t].fetched = unthreadable_fetch_eav(storage, q.entity, q.attribute,
                                                   q.value)]
    /\ UNCHANGED <<netVars, dispatchVars, pkgVars, holdVars, eavVars, rwlock>>

\* The read guard is dropped and fetch_eav returns the set.
ReleaseRead(t) ==
    /\ eav_threads[t].pc = "fetched"
    /\ rwlock' = [rwlock EXCEPT !.readers = @ \ {t}]
    /\ eav_threads' = [eav_threads EXCEPT ![t] = Idle]
    /\ UNCHANGED <<netVars, dispatchVars, pkgVars, holdVars, eavVars>>

NextEavLock ==
    \/ \E t \in EavThreads, eav \in LockTriples : CallAddEav(t, eav)
    \/ \E t \in EavThreads : AcquireWrite(t)
    \/ \E t \in EavThreads : InsertAndRelease(t)
    \/ \E t \in EavThreads, query \in LockQueries : CallFetchEav(t, query)
    \/ \E t \in EavThreads : AcquireRead(t)
    \/ \E t \in EavThreads : FetchUnderGuard(t)
    \/ \E t \in EavThreads : ReleaseRead(t)

\* A thread that holds a guard runs on: the insert and the fetch are finite.
\* Which waiting thread the lock admits next is left open.
SpecEavLock ==
    /\ InitNet
    /\ [][NextEavLock]_vars
    /\ \A t \in EavThreads :
          /\ WF_vars(InsertAndRelease(t))
          /\ WF_vars(FetchUnderGuard(t))
          /\ WF_vars(ReleaseRead(t))

\* ---------------------------------------------------------- claim C24
\* C24: at most one add_eav is inside the set and never while a fetch_eav
\* reads it; readers do not exclude each other; the set does not change while
\* a fetch_eav reads it, so the fetch returns the matching subset of the set
\* as it was when the read began, whole before or whole after every add; the
\* writer's stay is one insert, after which the lock is free for a waiting
\* reader.
C24_ReaderWriterDiscipline ==
    /\ [](/\ rwlock.writer # "none" => rwlock.readers = {}
          /\ \A t \in EavThreads :
                /\ (eav_threads[t].pc = "writing") <=> (rwlock.writer = t)
                /\ (eav_threads[t].pc \in {"reading", "fetched"})
                      <=> (t \in rwlock.readers)
                /\ t \in rwlock.readers => storage = eav_threads[t].begin
                /\ eav_threads[t].pc = "fetched" =>
                      eav_threads[t].fetched =
                         unthreadable_fetch_eav(eav_threads[t].begin,
                                                eav_threads[t].query.entity,
                                                eav_threads[t].query.attribute,
                                                eav_threads[t].query.value)
                /\ (eav_threads[t].pc = "want_read" /\ rwlock.writer = "none")
                      => ENABLED AcquireRead(t))
    /\ [][storage' # storage
             => \E t \in EavThreads :
                   /\ rwlock.writer = t
                   /\ rwlock'.writer = "none"
                   /\ BagToSet(storage') = BagToSet(storage) \cup {eav_threads[t].eav}]_vars
    /\ \A r \in EavThreads :
          (eav_threads[r].pc = "want_read" /\ rwlock.writer # "none")
             ~> (rwlock.writer = "none" \/ r \in rwlock.readers)

\* Two threads read the set at the same time, which holds a triple, while a
\* third one waits to add another.
C24_Witness ==
    /\ Cardinality(rwlock.readers) = 2
    /\ \E t \in EavThreads : eav_threads[t].pc = "want_write"
    /\ BagCardinality(storage) = 1
    /\ \E t \in rwlock.readers :
          /\ eav_threads[t].pc = "fetched"
          /\ eav_threads[t].fetched # {}

\* ---------------------------------------------------------- claim C25
\* The step is one of build_validation_package or of a worker thread: a call is
\* recorded, or the record of a call moves on.
BuilderStep == builds' # builds

\* C25: build_validation_package and its worker thread change the state only
\* through the dispatched ReturnValidationPackage action: a step of theirs
\* leaves the chain, the CAS, validation_packages and the network state as they
\* are (the header created for an entry not yet on the chain is not appended),
\* and validation_packages changes only when the reducer loop stores the
\* argument of the action at the head of the channel.
C25_OnlyThroughReturnValidationPackage ==
    [][/\ BuilderStep =>
            /\ chain' = chain
            /\ cas' = cas
            /\ validation_packages' = validation_packages
            /\ network_state' = network_state
       /\ validation_packages' # validation_packages =>
            /\ channel # <<>>
            /\ Head(channel).action.type = "ReturnValidationPackage"
            /\ \E i \in 1..Len(builds) :
                  /\ builds[i].id = Head(channel).action.address
                  /\ builds[i].worker = "done"
                  /\ builds[i].result = Head(channel).action.arg
            /\ validation_packages' =
                  Insert(validation_packages, Head(channel).action.address,
                         Head(channel).action.arg)
            /\ builds' = builds
      ]_vars

\* A package built on a header that was created for the call was stored, and
\* the chain does not hold that header.
C25_Witness ==
    \E i \in 1..Len(builds) :
        /\ builds[i].header # NoHeader
        /\ builds[i].header \notin Elements(chain)
        /\ Has(validation_packages, builds[i].id)
        /\ validation_packages[builds[i].id].ok
        /\ chain # <<>>

\* ---------------------------------------------------------- claim C28
\* The callback of call i gave no package definition.
CallbackFailed(b) == b.def.kind \in {"Fail", "NotImplemented", "CallError"}

C27_ResolvedNotRetained ==
    \A i \in 1..Len(builds) :
        (builds[i].future.kind = "state" /\ builds[i].future.outcome # NoResult)
            => ~Has(validation_packages, builds[i].id)

\* ------------------------------------------------- claims C26 and C29
\* The bridge between the worker thread and the future: the callback results
\* and the commits that decide what the worker sends (a package, an error, or
\* nothing after a panic).
BridgeCallbacks ==
    {[kind |-> "Entry", arg |-> ""],
     [kind |-> "ChainEntries", arg |-> ""],
     [kind |-> "Fail", arg |-> "callback_reason"]}
BridgeCommits == {EntryA1}

NextBridge ==
    \/ \E entry \in BuildEntries : BuildValidationPackage(entry)
    \/ \E i \in 1..Len(builds), cb \in BridgeCallbacks, fetch \in {"Ok", ErrIo} :
          WorkerAssemble(i, cb, fetch)
    \/ \E i \in 1..Len(builds) : WorkerSend(i)
    \/ ReduceReturnValidationPackage
    \/ \E i \in 1..Len(builds) : PollFuture(i)
    \/ \E i \in 1..Len(builds) : DropFuture(i)
    \/ \E entry \in BridgeCommits : Commit(entry)

\* The worker thread of every call runs on, the reducer loop takes what the
\* channel holds, and a fair executor polls every task that was woken.
SpecBridge ==
    /\ InitNet
    /\ [][NextBridge]_vars
    /\ \A i \in 1..MaxBuilds :
          /\ WF_vars(/\ i <= Len(builds)
                     /\ \E cb \in BridgeCallbacks, fetch \in {"Ok", ErrIo} :
                           WorkerAssemble(i, cb, fetch))
          /\ WF_vars(i <= Len(builds) /\ WorkerSend(i))
          /\ WF_vars(i <= Len(builds) /\ PollFuture(i))
    /\ WF_vars(ReduceReturnValidationPackage)

\* The result of call i is in validation_packages.
Stored(i) == Len(builds) >= i /\ Has(validation_packages, builds[i].id)

\* The future of call i was dropped before it completed.
Dropped(i) == Len(builds) >= i /\ builds[i].future.dropped

\* C29: no wake-up is lost: a ValidationPackageFuture whose poll returned
\* Pending has its task scheduled for another poll, and a result that is in
\* validation_packages is observed by a later poll of a fair executor, so the
\* future completes (unless its caller drops it first).
C29_NoLostWakeup ==
    /\ [](\A i \in 1..Len(builds) :
            (builds[i].future.kind = "state" /\ builds[i].future.outcome = NoResult)
               => builds[i].future.woken)
    /\ \A i \in 1..MaxBuilds :
          (KnownTypeCall(i) /\ Stored(i)) ~> (Completed(i) \/ Dropped(i))

\* A poll returned Pending, the result was stored afterwards, and a later poll
\* completed the future with it.
C29_Witness ==
    \E i \in 1..Len(builds) :
        /\ builds[i].future.kind = "state"
        /\ builds[i].future.wasPending
        /\ builds[i].worker = "done"
        /\ Has(validation_packages, builds[i].id)
        /\ builds[i].future.outcome = validation_packages[builds[i].id]

\* C26: dropping the future before it completes does not cancel the worker:
\* the ReturnValidationPackage action of its request id is still sent and
\* applied, so validation_packages comes to hold a result under that id, and
\* no poll reads it.
C26_DroppedResultStillStored ==
    /\ \A i \in 1..MaxBuilds :
          (KnownTypeCall(i) /\ Dropped(i)) ~> Stored(i)
    /\ [](\A i \in 1..Len(builds) :
            builds[i].future.dropped => builds[i].future.outcome = NoResult)

\* The worker thread of call i ended in a panic.
Panicked(i) == Len(builds) >= i /\ builds[i].worker = "panicked"

\* What holds of a dropped future: the drop changes nothing but the future
\* itself, the worker goes on as without the drop, and its result is stored
\* unless the worker thread panicked.
DropLeavesWorkerRunning ==
    /\ [][\A i \in 1..Len(builds) :
            (~builds[i].future.dropped
                /\ Len(builds') = Len(builds) /\ builds'[i].future.dropped)
            => /\ builds' = [builds EXCEPT ![i].future.dropped = TRUE]
               /\ UNCHANGED <<chain, cas, validation_packages, channel, received>>
      ]_vars
    /\ \A i \in 1..MaxBuilds :
          (KnownTypeCall(i) /\ Dropped(i))
             ~> (Stored(i) \/ Panicked(i))

\* ---------------------------------------------------------- claim C30
\* The calls and commits that decide entry_header: the chain grows while a call
\* is between chain_header and create_new_chain_header, and the worker builds
\* a header-only package.
HeaderCallbacks == {[kind |-> "Entry", arg |-> ""]}
HeaderCalls ==
    {entry \in BuildEntries : get_zome_name_for_entry_type(entry.entry_type) # "None"}

NextChainHeader ==
    \/ \E entry \in HeaderCalls : BuildChainHeader(entry)
    \/ \E i \in 1..Len(builds) : BuildSpawn(i)
    \/ \E i \in 1..Len(builds), cb \in HeaderCallbacks : WorkerAssemble(i, cb, "Ok")
    \/ \E entry \in CommitEntries : CommitHistory(entry)

SpecChainHeader == InitNet /\ [][NextChainHeader]_vars

\* The positions of the chain whose header has the entry's address.
MatchingPositions(entry, ch) ==
    {k \in 1..Len(ch) : ch[k].entry_address = Address(entry)}

\* The matching header nearest to the tip, NoHeader when none matches.
MostRecentHeader(entry, ch) ==
    LET ks == MatchingPositions(entry, ch)
    IN IF ks = {} THEN NoHeader
       ELSE ch[CHOOSE k \in ks : \A j \in ks : j <= k]

\* C30: the chain_header of a built package is the header found first when the
\* chain is walked backward from its tip and whose entry address is the
\* entry's: of several commits of the same entry the most recent one; only
\* when no header of the walked chain matches is a header used that was
\* created for the call, and it links to the tip current at its creation.
C30_MostRecentMatchingHeader ==
    /\ [][\A i \in 1..Len(builds') :
            /\ i > Len(builds) =>
                  builds'[i].header = MostRecentHeader(builds'[i].entry, chain)
            /\ (i <= Len(builds) /\ builds[i].worker = "called"
                  /\ builds'[i].worker # "called") =>
                  /\ builds'[i].header =
                        IF builds[i].header # NoHeader
                        THEN builds[i].header
                        ELSE ChainHeader(builds[i].entry, Len(chain))
                  /\ chain' = chain
            /\ (i <= Len(builds) /\ builds[i].worker # "called") =>
                  builds'[i].header = builds[i].header
      ]_vars
    /\ [](\A i \in 1..Len(builds) :
            \A package \in PackagesOf(builds[i]) :
               /\ package.chain_header = Some(builds[i].header)
               /\ builds[i].header # NoHeader
               /\ builds[i].header.entry_address = Address(builds[i].entry)
               /\ \/ \E k \in MatchingPositions(builds[i].entry, chain) :
                        builds[i].header = chain[k]
                  \/ /\ builds[i].header.link \in 1..Len(chain)
                     /\ builds[i].header =
                           ChainHeader(builds[i].entry, builds[i].header.link))

\* The entry was committed twice before the call: the package has the header
\* of the second commit.
C30_Witness ==
    \E i \in 1..Len(builds) :
        /\ builds[i].result.ok
        /\ \E j, k \in MatchingPositions(builds[i].entry, chain) :
              /\ j < k
              /\ builds[i].result.package.chain_header = Some(chain[k])
              /\ chain[j] # chain[k]

\* ---------------------------------------------------------- claim C33
\* C33: GetEntryTimeout(A) applied while A is absent from
\* get_entry_with_meta_results changes nothing of the network state: the key
\* stays absent, no Timeout is recorded, and a GetEntry(A) applied afterwards
\* gives what it would have given without the timeout.
C33_TimeoutOnAbsentKeyIsNoOp ==
    [][\A a \in Addresses :
          (IsStep("GetEntryTimeout", a) /\ Lookup(network_state, a) = Absent)
              => /\ network_state' = network_state
                 /\ Lookup(network_state', a) = Absent
                 /\ \A io \in {"Ok", ErrIo} :
                       /\ reduce_get_entry(network_state', a, io)
                             = reduce_get_entry(network_state, a, io)
                       /\ Lookup(reduce_get_entry(network_state', a, io), a)
                             # ResErr(ErrTimeout)]_vars

\* A timeout was applied to an address that was never requested, in an
\* initialized network that holds a request of another address.
C33_Witness ==
    /\ last.type = "GetEntryTimeout"
    /\ last.before = Absent
    /\ Lookup(network_state, last.address) = Absent
    /\ initialized(network_state)
    /\ \E b \in Addresses : Lookup(network_state, b) # Absent

\* ---------------------------------------------------------- claim C34
\* C34: GetEntry(A) and GetEntryTimeout(A) change get_entry_with_meta_results
\* under A only: for every other address B the value under B, or its absence,
\* is the same after the action as before, and network, dna_address and
\* agent_id are unchanged.
C34_OtherAddressesUntouched ==
    [][\A a \in Addresses :
          (IsStep("GetEntry", a) \/ IsStep("GetEntryTimeout", a))
              => /\ \A b \in Addresses \ {a} :
                       Lookup(network_state', b) = Lookup(network_state, b)
                 /\ DOMAIN network_state'.get_entry_with_meta_results
                       \subseteq DOMAIN network_state.get_entry_with_meta_results
                                   \cup {a}
                 /\ network_state'.dna_address = network_state.dna_address
                 /\ network_state'.agent_id = network_state.agent_id
                 /\ network_state'.network = network_state.network]_vars

\* GetEntry changed the value under its address while another address holds a
\* delivered result.
C34_Witness ==
    /\ last.type = "GetEntry"
    /\ Lookup(network_state, last.address) # last.before
    /\ \E b \in Addresses \ {last.address} : Lookup(network_state, b).tag = "Ok"

\* ---------------------------------------------------------- claim C31
\* Several calls in flight together: their workers send, and the reducer loop
\* applies, in any order.
NextConcurrent ==
    \/ \E entry \in BuildEntries : BuildConcurrently(entry)
    \/ \E i \in 1..Len(builds), cb \in BridgeCallbacks, fetch \in {"Ok", ErrIo} :
          WorkerAssemble(i, cb, fetch)
    \/ \E i \in 1..Len(builds) : WorkerSend(i)
    \/ ReduceReturnValidationPackage
    \/ \E i \in 1..Len(builds) : PollFuture(i)

SpecConcurrent == InitNet /\ [][NextConcurrent]_vars

\* The positions of the wrappers received that carry the request id of call i.
SentFor(i) == {k \in 1..Len(received) : received[k].action.address = builds[i].id}

\* C31: every call has a request id of its own; its worker sends at most one
\* ReturnValidationPackage, with that id and the result it computed; and the
\* future of a call completes only with the result computed for that call's
\* entry, whatever the other calls in flight do.
C31_OwnIdOwnResult ==
    \A i \in 1..Len(builds) :
        LET b == builds[i] IN
        /\ \A j \in 1..Len(builds) : j # i => builds[j].id # b.id
        /\ Cardinality(SentFor(i)) <= 1
        /\ Cardinality(SentFor(i)) = (IF b.worker = "done" THEN 1 ELSE 0)
        /\ \A k \in SentFor(i) :
              /\ received[k].action.type = "ReturnValidationPackage"
              /\ received[k].action.arg = b.result
        /\ Has(validation_packages, b.id) => validation_packages[b.id] = b.result
        /\ (b.future.kind = "state" /\ b.future.outcome # NoResult) =>
              /\ b.future.outcome = b.result
              /\ b.worker = "done"
              /\ b.future.outcome.ok =>
                    b.future.outcome.package.chain_header.v.entry_address
                       = Address(b.entry)

\* Two calls for different entries were in flight together, the worker of the
\* second sent first, and each future completed with the package of its own
\* entry.
C31_Witness ==
    /\ Len(builds) = 2
    /\ builds[1].entry # builds[2].entry
    /\ Len(received) = 2
    /\ received[1].action.address = builds[2].id
    /\ builds[1].future.outcome.ok
    /\ builds[2].future.outcome.ok
    /\ builds[1].future.outcome # builds[2].future.outcome

\* ---------------------------------------------------------- claim C32
\* C32: in every ChainFull package source_chain_entries and
\* source_chain_headers describe one snapshot of the chain: they have the same
\* length and the address of the i-th entry is the entry address of the i-th
\* header, also when commits are applied while the worker assembles it.
C32_ChainFullOneSnapshot ==
    \A i \in 1..Len(builds) :
        \A package \in PackagesOf(builds[i]) :
            builds[i].def.kind = "ChainFull" =>
                LET entries == package.source_chain_entries.v
                    headers == package.source_chain_headers.v
                IN /\ Len(entries) = Len(headers)
                   /\ \A k \in 1..Len(entries) :
                         k <= Len(headers) =>
                            Address(entries[k]) = headers[k].entry_address

====
